---- MODULE Spec2Model ----
(***************************************************************************)
(* Break-time tracker: the in-memory session table of the Telegram bot,    *)
(* the "Other" reason conversation, the daily event log, the dashboard     *)
(* force-close endpoint, the Excel Online sync with its circuit breaker    *)
(* and the reminder job.                                                   *)
(*                                                                         *)
(* Time is in seconds since midnight of day 0; a timestamp string          *)
(* 'YYYY-MM-DD HH:MM:SS' is the number of seconds it denotes, its date     *)
(* part is Day(t).  Durations are in tenths of a minute (185 = 18.5 min).  *)
(* Python dicts are functions/records whose DOMAIN is the set of keys.     *)
(* Optional numbers are <<>> (None, or a blank cell) or <<n>>.             *)
(***************************************************************************)
EXTENDS Integers, Sequences, FiniteSets, TLC

(* ---------------------------- bounds ---------------------------------- *)
MaxLog == 2
MaxDay == 1
\* days that pass where the lookback window is looked at
MaxWindowDay == 3
\* rows logged and sync tasks in flight where the Excel sync is enabled
MaxSyncLog == 5
MaxTasks == 2
\* rows logged and reminders sent where the reminder job runs
MaxReminderLog == 3
MaxReminders == 2
\* rows logged where reconciliation meets damaged files
MaxRepairLog == 4

(* ---------------------------- inputs ---------------------------------- *)
Persons == {7, 42}
Chats == {"private", "group"}
Reasons == {"emergency call"}
BreakTypeCodes == {"E", "C", "S", "O"}
ActionTypes == {"1", "2"}
\* times of day (seconds after midnight) at which the clock is observed
Instants == {0, 33, 1110}
\* values of the check_days query parameter that are tried
CheckDays == {1, 3}

None == "<None>"
SecondsPerDay == 24 * 60 * 60
Day(t) == t \div SecondsPerDay
TimeOfDay(t) == t % SecondsPerDay

VARIABLES
    now,            \* the wall clock, datetime.now()
    user_sessions,  \* user_sessions: user id -> session dict
    user_data,      \* context.user_data of each user (keys set by O1)
    conversations,  \* ConversationHandler keys (chat, user) in WAITING_FOR_REASON
    log,            \* the rows of all daily log files, in the order written
    consecutive_failures,  \* _consecutive_failures
    circuit_open_until,    \* _circuit_open_until: <<>> (None) or <<time>>
    initialized,           \* _initialized
    tasks,          \* the sync tasks created by loop.create_task, not yet done
    outcomes,       \* the results add_break_event recorded since the process started
    key_order,      \* the keys of user_sessions in insertion order (.items())
    job,            \* the run of check_break_reminders in progress: <<>> or <<run>>
    reminders,      \* the reminders sent so far
    clear_cache_signal,  \* database/.clear_cache_signal: <<>> (no file) or <<content>>
    closing,        \* the force-close request in progress: <<>> or <<request>>
    graph_request   \* the call of GraphClient._request in progress: <<>> or <<call>>

\* the bot's sessions and log
bot_vars == <<now, user_sessions, user_data, conversations, log>>
\* the Excel Online sync of microsoft/excel_handler.py
sync_vars == <<consecutive_failures, circuit_open_until, initialized, tasks, outcomes>>
\* the reminder job
reminder_vars == <<key_order, job, reminders>>
\* the dashboard's system management endpoints
admin_vars == <<clear_cache_signal, closing>>
\* the Graph API client of microsoft/graph_client.py
graph_vars == <<graph_request>>

vars == <<now, user_sessions, user_data, conversations, log,
          consecutive_failures, circuit_open_until, initialized, tasks, outcomes,
          key_order, job, reminders, clear_cache_signal, closing, graph_request>>

(* ---------------------------- helpers --------------------------------- *)
\* d[k] = v on a Python dict
Put(d, k, v) == [x \in (DOMAIN d) \cup {k} |-> IF x = k THEN v ELSE d[x]]

\* Elapsed seconds 6k+3 are exact ties x.x5; Python's round() settles them on
\* the binary double secs/60.  These are the ties of the model's clock that
\* round() rounds up; the other ties it rounds down.
TiesRoundedUp ==
    {33, 86367, 87477, 171723, 172833, 258123, 259233, 344523, 345633,
     430923, 432033, 518367, 519477, 604767, 605877, 691167, 692277}

\* round(secs / 60, 1), in tenths of a minute
Round1(secs) ==
    LET q == secs \div 6
        r == secs % 6
    IN  IF r < 3 THEN q
        ELSE IF r > 3 THEN q + 1
        ELSE IF secs \in TiesRoundedUp THEN q + 1 ELSE q

break_types(code) ==
    CASE code = "E" -> "Eating"
      [] code = "C" -> "Comfort Room"
      [] code = "S" -> "Smoke Break"
      [] code = "O" -> "Other Concern"

\* faulty variant: the active flag is looked up under a key that is never set
is_active_never(user) == FALSE

\* is_active = active_session and active_session.get('active')
is_active(user) ==
    /\ user \in DOMAIN user_sessions
    /\ "active" \in DOMAIN user_sessions[user]
    /\ user_sessions[user].active

\* faulty variant: the file is written with the new row only
log_break_activity_overwrite(user_id, break_type, action, timestamp, duration, reason) ==
    <<[day |-> Day(now), user_id |-> user_id, break_type |-> break_type,
       action |-> action, timestamp |-> timestamp, duration |-> duration,
       reason |-> IF reason = None THEN "" ELSE reason]>>

\* faulty variant: the row carries the User ID of the file's first row
LogRow_first_user(user_id, break_type, action, timestamp, duration, reason) ==
    [day |-> Day(now),
     user_id |-> IF log = <<>> THEN user_id ELSE log[1].user_id,
     break_type |-> break_type,
     action |-> action,
     timestamp |-> timestamp,
     duration |-> IF duration = <<>> \/ duration = <<0>> THEN <<>> ELSE duration,
     reason |-> IF reason = None THEN "" ELSE reason]

\* the row log_break_activity appends to today's file:
\* 'duration or ""' and 'reason or ""'
LogRow(user_id, break_type, action, timestamp, duration, reason) ==
    [day |-> Day(now),
     user_id |-> user_id,
     break_type |-> break_type,
     action |-> action,
     timestamp |-> timestamp,
     duration |-> IF duration = <<>> \/ duration = <<0>> THEN <<>> ELSE duration,
     reason |-> IF reason = None THEN "" ELSE reason]

log_break_activity(user_id, break_type, action, timestamp, duration, reason) ==
    Append(log, LogRow(user_id, break_type, action, timestamp, duration, reason))

\* faulty variant: reminder_sent is initialised for every break type
ButtonSession_all_flagged(break_type_code, timestamp, group_chat_id) ==
    [break_type |-> break_types(break_type_code),
     start_time |-> timestamp,
     active |-> TRUE,
     group_chat_id |-> group_chat_id,
     reminder_sent |-> FALSE]

\* session_data as built by the OUT branch of button_callback
ButtonSession(break_type_code, timestamp, group_chat_id) ==
    LET session_data ==
            [break_type |-> break_types(break_type_code),
             start_time |-> timestamp,
             active |-> TRUE,
             group_chat_id |-> group_chat_id]
    IN  IF break_type_code \in {"E", "S"}
        THEN Put(session_data, "reminder_sent", FALSE)
        ELSE session_data

\* session_data as built by the OUT branch of handle_break_command.  A
\* 'reason' key holding None is left out: the code reads the key with
\* .get('reason') only, which gives None for both.
CommandSession(break_type_code, timestamp, reason_from_command, group_chat_id) ==
    LET base ==
            [break_type |-> break_types(break_type_code),
             start_time |-> timestamp,
             active |-> TRUE,
             group_chat_id |-> group_chat_id]
        session_data ==
            IF reason_from_command = None
            THEN base
            ELSE Put(base, "reason", reason_from_command)
    IN  IF break_type_code \in {"E", "S"}
        THEN Put(session_data, "reminder_sent", FALSE)
        ELSE session_data

\* the session handle_reason stores
ReasonSession(break_type, start_time, reason, group_chat_id) ==
    [break_type |-> break_type,
     start_time |-> start_time,
     active |-> TRUE,
     reason |-> reason,
     group_chat_id |-> group_chat_id]

\* user_sessions[user_id] = {'active': False}: what replaces the session
\* of a break that was ended
EndedSession == [active |-> FALSE]
\* faulty variant: the session is left as it was
ended_keeps_session(session) == session
ended(session) == EndedSession

\* faulty variant: the break type is not compared
type_matches_any(session, break_type) == TRUE
\* the BACK branch goes on when not (active_break_type_name != break_type)
type_matches(session, break_type) == session.break_type = break_type

\* active_session.get('reason')
SessionReason(session) ==
    IF "reason" \in DOMAIN session THEN session.reason ELSE None

GroupChatId(chat) == IF chat = "group" THEN chat ELSE None

(* ---------------------------- Init ------------------------------------ *)
Init ==
    /\ now = 0
    /\ user_sessions = <<>>
    /\ user_data = <<>>
    /\ conversations = {}
    /\ log = <<>>
    /\ consecutive_failures = 0
    /\ circuit_open_until = <<>>
    /\ initialized = FALSE
    /\ tasks = <<>>
    /\ outcomes = <<>>
    /\ key_order = <<>>
    /\ job = <<>>
    /\ reminders = <<>>
    /\ clear_cache_signal = <<>>
    /\ closing = <<>>
    /\ graph_request = <<>>

(* ---------------------------- the bot --------------------------------- *)
\* What a handler does with one update, as a function of the state it
\* finds: the message it sends back (reply) and the dicts and log it leaves.
Outcome(r, sessions, data, convs, rows) ==
    [reply |-> r, user_sessions |-> sessions, user_data |-> data,
     conversations |-> convs, log |-> rows]

\* The handler raised (log_break_activity failed): python-telegram-bot logs
\* the exception, nothing is sent to the user.
NoReply == [kind |-> "NoReply"]

\* button_callback for the data E1..O2.  The ConversationHandler is asked
\* first: it takes the update only as its entry point (data O1, key not in
\* a conversation) and then stores the returned state; otherwise the
\* generic CallbackQueryHandler runs button_callback and drops the result.
\* append_ok = FALSE: log_break_activity raises, the handler ends there.
button_callback(user, chat, break_type_code, action_type, append_ok) ==
    LET timestamp == now
        group_chat_id == GroupChatId(chat)
        break_type == break_types(break_type_code)
        key == <<chat, user>>
        entry_point == /\ break_type_code = "O"
                       /\ action_type = "1"
                       /\ key \notin conversations
    IN
    IF action_type = "1"
    THEN IF is_active(user)
         THEN Outcome([kind |-> "AlreadyActive",
                       break_type |-> user_sessions[user].break_type],
                      user_sessions, user_data, conversations, log)
         ELSE IF break_type_code = "O"
         THEN Outcome([kind |-> "ReasonRequired", time |-> timestamp],
                      user_sessions,
                      Put(user_data, user,
                          [break_type |-> break_type,
                           start_time |-> timestamp,
                           group_chat_id |-> group_chat_id]),
                      IF entry_point THEN conversations \cup {key}
                                     ELSE conversations,
                      log)
         ELSE LET sessions == Put(user_sessions, user,
                                  ButtonSession(break_type_code, timestamp,
                                                group_chat_id))
              IN  IF append_ok
                  THEN Outcome([kind |-> "BreakStarted",
                                break_type |-> break_type,
                                time_out |-> timestamp],
                               sessions, user_data, conversations,
                               log_break_activity(user, break_type, "OUT",
                                                  timestamp, <<>>, None))
                  ELSE Outcome(NoReply, sessions, user_data, conversations, log)
    ELSE IF ~is_active(user)
         THEN Outcome([kind |-> "NoActiveBreak"],
                      user_sessions, user_data, conversations, log)
         ELSE IF ~type_matches(user_sessions[user], break_type)
         THEN Outcome([kind |-> "CategoryMismatch",
                       break_type |-> break_type,
                       active_break_type |-> user_sessions[user].break_type],
                      user_sessions, user_data, conversations, log)
         ELSE LET start_time == user_sessions[user].start_time
                  reason == SessionReason(user_sessions[user])
                  duration_minutes == Round1(timestamp - start_time)
              IN  IF append_ok
                  THEN Outcome([kind |-> "BreakEnded",
                                break_type |-> break_type,
                                time_out |-> start_time,
                                time_back |-> timestamp,
                                duration |-> duration_minutes,
                                reason |-> reason],
                               Put(user_sessions, user, ended(user_sessions[user])),
                               user_data, conversations,
                               log_break_activity(user, break_type, "BACK",
                                   timestamp, <<duration_minutes>>, reason))
                  ELSE Outcome(NoReply, user_sessions, user_data,
                               conversations, log)

\* handle_reason: the text message of a user whose (chat, user) conversation
\* is in WAITING_FOR_REASON.  If log_break_activity raises, the handler's
\* result is lost and the conversation stays where it was.
handle_reason(user, chat, reason, append_ok) ==
    LET key == <<chat, user>>
        break_type == user_data[user].break_type
        start_time == user_data[user].start_time
        group_chat_id == user_data[user].group_chat_id
        sessions == Put(user_sessions, user,
                        ReasonSession(break_type, start_time, reason,
                                      group_chat_id))
    IN  IF append_ok
        THEN Outcome([kind |-> "BreakStarted", break_type |-> break_type,
                      time_out |-> start_time, reason |-> reason],
                     sessions, user_data, conversations \ {key},
                     log_break_activity(user, break_type, "OUT", start_time,
                                        <<>>, reason))
        ELSE Outcome(NoReply, sessions, user_data, conversations, log)

\* handle_break_command for /e1 .. /o2, with the text after the command
\* (reason_from_command, None when there is none)
handle_break_command(user, chat, break_type_code, action_type, reason_from_command, append_ok) ==
    LET timestamp == now
        group_chat_id == GroupChatId(chat)
        break_type == break_types(break_type_code)
    IN
    IF action_type = "1"
    THEN IF is_active(user)
         THEN Outcome([kind |-> "AlreadyActive",
                       break_type |-> user_sessions[user].break_type],
                      user_sessions, user_data, conversations, log)
         ELSE IF break_type_code = "O" /\ reason_from_command = None
         THEN Outcome([kind |-> "ReasonRequired"],
                      user_sessions, user_data, conversations, log)
         ELSE LET sessions == Put(user_sessions, user,
                                  CommandSession(break_type_code, timestamp,
                                      reason_from_command, group_chat_id))
              IN  IF append_ok
                  THEN Outcome([kind |-> "BreakStarted",
                                break_type |-> break_type,
                                time_out |-> timestamp,
                                reason |-> reason_from_command],
                               sessions, user_data, conversations,
                               log_break_activity(user, break_type, "OUT",
                                   timestamp, <<>>, reason_from_command))
                  ELSE Outcome(NoReply, sessions, user_data, conversations, log)
    ELSE IF ~is_active(user)
         THEN Outcome([kind |-> "NoActiveBreak"],
                      user_sessions, user_data, conversations, log)
         ELSE IF ~type_matches(user_sessions[user], break_type)
         THEN Outcome([kind |-> "CategoryMismatch",
                       break_type |-> break_type,
                       active_break_type |-> user_sessions[user].break_type],
                      user_sessions, user_data, conversations, log)
         ELSE LET start_time == user_sessions[user].start_time
                  duration_minutes == Round1(timestamp - start_time)
                  reason == SessionReason(user_sessions[user])
              IN  IF append_ok
                  THEN Outcome([kind |-> "BreakEnded",
                                break_type |-> break_type,
                                duration |-> duration_minutes,
                                reason |-> reason],
                               Put(user_sessions, user, ended(user_sessions[user])),
                               user_data, conversations,
                               log_break_activity(user, break_type, "BACK",
                                   timestamp, <<duration_minutes>>, reason))
                  ELSE Outcome(NoReply, user_sessions, user_data,
                               conversations, log)

\* the handler's outcome becomes the state
Store(outcome) ==
    /\ user_sessions' = outcome.user_sessions
    /\ user_data' = outcome.user_data
    /\ conversations' = outcome.conversations
    /\ log' = outcome.log
    /\ UNCHANGED now

Apply(outcome) ==
    /\ Len(outcome.log) <= MaxLog
    /\ Store(outcome)

ButtonCallback(user, chat, break_type_code, action_type, append_ok) ==
    Apply(button_callback(user, chat, break_type_code, action_type, append_ok))

\* dispatched only to a conversation in WAITING_FOR_REASON
HandleReason(user, chat, reason, append_ok) ==
    /\ <<chat, user>> \in conversations
    /\ Apply(handle_reason(user, chat, reason, append_ok))

HandleBreakCommand(user, chat, break_type_code, action_type, reason_from_command, append_ok) ==
    Apply(handle_break_command(user, chat, break_type_code, action_type,
                               reason_from_command, append_ok))

\* cancel: the /cancel fallback of a conversation in WAITING_FOR_REASON
Cancel(user, chat) ==
    /\ <<chat, user>> \in conversations
    /\ conversations' = conversations \ {<<chat, user>>}
    /\ UNCHANGED <<now, user_sessions, user_data, log>>

(* ---------------------------- the clock ------------------------------- *)
\* time passes within the day, to a later one of the observed instants
Tick ==
    /\ \E t \in Instants :
          /\ t > TimeOfDay(now)
          /\ now' = Day(now) * SecondsPerDay + t
    /\ UNCHANGED <<user_sessions, user_data, conversations, log>>

\* midnight passes: the same time of day, one day later
NextDay ==
    /\ Day(now) < MaxDay
    /\ now' = now + SecondsPerDay
    /\ UNCHANGED <<user_sessions, user_data, conversations, log>>

(* ---------------------------- restart --------------------------------- *)
\* The bot process exits and run_bot starts it again: the module-level
\* dicts, the user_data and the conversations (no persistence is
\* configured) start empty; the log files stay.
Restart ==
    /\ user_sessions' = <<>>
    /\ user_data' = <<>>
    /\ conversations' = {}
    /\ consecutive_failures' = 0
    /\ circuit_open_until' = <<>>
    /\ initialized' = FALSE
    /\ tasks' = <<>>
    /\ outcomes' = <<>>
    /\ key_order' = <<>>
    /\ job' = <<>>
    /\ graph_request' = <<>>
    /\ UNCHANGED <<now, log, reminders, admin_vars>>

(* ---------------------------- force-close ----------------------------- *)
\* the rows of the file break_logs_<day>.xlsx, in file order
DayRows(rows, day) == SelectSeq(rows, LAMBDA row : row.day = day)

\* insert a row into rows sorted by Timestamp, after the rows that are
\* not later than it
RECURSIVE InsertByTimestamp(_, _)
InsertByTimestamp(sorted, row) ==
    IF sorted = <<>> THEN <<row>>
    ELSE IF Head(sorted).timestamp <= row.timestamp
         THEN <<Head(sorted)>> \o InsertByTimestamp(Tail(sorted), row)
         ELSE <<row>> \o sorted

\* df.sort_values('Timestamp')
RECURSIVE sort_values(_)
sort_values(rows) ==
    IF rows = <<>> THEN <<>>
    ELSE InsertByTimestamp(sort_values(SubSeq(rows, 1, Len(rows) - 1)),
                           rows[Len(rows)])

\* all_breaks is an insertion-ordered dict, here the sequence of its items
HasKey(all_breaks, user_id) ==
    \E i \in 1..Len(all_breaks) : all_breaks[i].user_id = user_id

\* all_breaks[user_id] = (row, date_str)
SetItem(all_breaks, user_id, row, date_str) ==
    LET item == [user_id |-> user_id, row |-> row, date_str |-> date_str]
    IN  IF HasKey(all_breaks, user_id)
        THEN [i \in 1..Len(all_breaks) |->
                 IF all_breaks[i].user_id = user_id THEN item ELSE all_breaks[i]]
        ELSE Append(all_breaks, item)

\* del all_breaks[user_id]
DelItem(all_breaks, user_id) ==
    SelectSeq(all_breaks, LAMBDA item : item.user_id # user_id)

\* faulty variant: a BACK of a person who is not in all_breaks empties it
RECURSIVE ReplayRows_clearing(_, _, _)
ReplayRows_clearing(all_breaks, rows, date_str) ==
    IF rows = <<>> THEN all_breaks
    ELSE LET row == Head(rows)
             next == IF row.action = "OUT"
                     THEN SetItem(all_breaks, row.user_id, row, date_str)
                     ELSE IF row.action = "BACK" /\ HasKey(all_breaks, row.user_id)
                     THEN DelItem(all_breaks, row.user_id)
                     ELSE <<>>
         IN  ReplayRows_clearing(next, Tail(rows), date_str)

\* the loop over the sorted rows of one day's file
RECURSIVE ReplayRows(_, _, _)
ReplayRows(all_breaks, rows, date_str) ==
    IF rows = <<>> THEN all_breaks
    ELSE LET row == Head(rows)
             next == IF row.action = "OUT"
                     THEN SetItem(all_breaks, row.user_id, row, date_str)
                     ELSE IF row.action = "BACK" /\ HasKey(all_breaks, row.user_id)
                     THEN DelItem(all_breaks, row.user_id)
                     ELSE all_breaks
         IN  ReplayRows(next, Tail(rows), date_str)

\* faulty variant: the loop goes back to the first day, whatever check_days
RECURSIVE CollectBreaks_every_day(_, _, _, _)
CollectBreaks_every_day(all_breaks, rows, days_back, check_days) ==
    IF days_back > Day(now) THEN all_breaks
    ELSE LET date_str == Day(now - days_back * SecondsPerDay)
             df == DayRows(rows, date_str)
             next == IF df = <<>> THEN all_breaks
                     ELSE ReplayRows(all_breaks, sort_values(df), date_str)
         IN  CollectBreaks_every_day(next, rows, days_back + 1, check_days)

\* for days_back in range(check_days): today first, then the days before it;
\* a day with no file or an empty file is skipped
RECURSIVE CollectBreaks(_, _, _, _)
CollectBreaks(all_breaks, rows, days_back, check_days) ==
    IF days_back >= check_days THEN all_breaks
    ELSE LET date_str == Day(now - days_back * SecondsPerDay)
             df == DayRows(rows, date_str)
             next == IF now - days_back * SecondsPerDay < 0 \/ df = <<>>
                     THEN all_breaks
                     ELSE ReplayRows(all_breaks, sort_values(df), date_str)
         IN  CollectBreaks(next, rows, days_back + 1, check_days)

ForceCloseReason(date_str) ==
    "System force-closed (from day " \o ToString(date_str) \o ")"

\* a Timestamp cell that was emptied outside the program: read_excel gives
\* NaN, sort_values puts it after every timestamp, strptime refuses it
NaT == 999999999

\* faulty variant: the BACK row goes to the file of the day of the OUT
ForceCloseRow_original_day(item) ==
    [day |-> item.date_str,
     user_id |-> item.user_id,
     break_type |-> item.row.break_type,
     action |-> "BACK",
     timestamp |-> now,
     duration |-> IF item.row.timestamp = NaT THEN <<0>>
                  ELSE <<Round1(now - item.row.timestamp)>>,
     reason |-> ForceCloseReason(item.date_str)]

\* faulty variant: a timestamp that cannot be parsed is computed with
ForceCloseRow_no_default(item) ==
    [day |-> Day(now),
     user_id |-> item.user_id,
     break_type |-> item.row.break_type,
     action |-> "BACK",
     timestamp |-> now,
     duration |-> <<Round1(now - item.row.timestamp)>>,
     reason |-> ForceCloseReason(item.date_str)]

\* the BACK row written for one item of all_breaks; the duration is 0 when
\* strptime raises on the OUT row's timestamp
ForceCloseRow(item) ==
    [day |-> Day(now),
     user_id |-> item.user_id,
     break_type |-> item.row.break_type,
     action |-> "BACK",
     timestamp |-> now,
     duration |-> IF item.row.timestamp = NaT THEN <<0>>
                  ELSE <<Round1(now - item.row.timestamp)>>,
     reason |-> ForceCloseReason(item.date_str)]

\* the BACK rows force_close_all_breaks(check_days) writes to today's file
force_close_rows(check_days) ==
    LET all_breaks == CollectBreaks(<<>>, log, 0, check_days)
    IN  [i \in 1..Len(all_breaks) |-> ForceCloseRow(all_breaks[i])]

\* force_close_all_breaks(check_days): the dashboard's DELETE
\* /api/system/force-close-all, run without interference.  It writes the
\* log file and the signal file; the bot reads neither.
ForceClose(check_days) ==
    /\ Len(log) + Len(force_close_rows(check_days)) <= MaxLog
    /\ log' = log \o force_close_rows(check_days)
    /\ clear_cache_signal' = <<now>>
    /\ UNCHANGED <<now, user_sessions, user_data, conversations>>

(* ---------------------------- damaged log files ----------------------- *)
\* the sets of days whose log file exists but cannot be read (a truncated
\* or corrupt workbook: pd.read_excel raises)
UnreadableDays == SUBSET (0..MaxDay)

\* what the replay gets to see: a file that cannot be read is passed over
\* by the except branch before any of its rows is looked at
Readable(rows, unreadable) == SelectSeq(rows, LAMBDA row : row.day \notin unreadable)

\* all_breaks after the loop over the days
stuck_breaks(check_days, unreadable) ==
    CollectBreaks(<<>>, Readable(log, unreadable), 0, check_days)

\* the BACK rows force_close_all_breaks builds
force_close_rows_reading(check_days, unreadable) ==
    LET all_breaks == stuck_breaks(check_days, unreadable)
    IN  [i \in 1..Len(all_breaks) |-> ForceCloseRow(all_breaks[i])]

AutoCloseReason(date_str) ==
    "Auto-closed by system (from day " \o ToString(date_str) \o ")"

\* faulty variant: no duration 0 for a timestamp that cannot be parsed
FixStuckRow_no_default(item) ==
    [day |-> Day(now),
     user_id |-> item.user_id,
     break_type |-> item.row.break_type,
     action |-> "BACK",
     timestamp |-> now,
     duration |-> <<Round1(now - item.row.timestamp)>>,
     reason |-> AutoCloseReason(item.date_str)]

\* new_row of fix_stuck_active_breaks for one item of all_breaks, added to
\* closes_by_file under today's file
FixStuckRow(item) ==
    [day |-> Day(now),
     user_id |-> item.user_id,
     break_type |-> item.row.break_type,
     action |-> "BACK",
     timestamp |-> now,
     duration |-> IF item.row.timestamp = NaT THEN <<0>>
                  ELSE <<Round1(now - item.row.timestamp)>>,
     reason |-> AutoCloseReason(item.date_str)]

\* the BACK rows fix_stuck_active_breaks builds (check_days = 3)
fix_stuck_rows(unreadable) ==
    LET all_breaks == stuck_breaks(3, unreadable)
    IN  [i \in 1..Len(all_breaks) |-> FixStuckRow(all_breaks[i])]

\* force_close_all_breaks where some files cannot be read.  When there are
\* rows to write, today's file is read again: if that raises, the request
\* ends with HTTP 500 and nothing is written.
ForceCloseReading(check_days, unreadable) ==
    LET rows == force_close_rows_reading(check_days, unreadable)
    IN  /\ Len(log) + Len(rows) <= MaxRepairLog
        /\ IF rows # <<>> /\ Day(now) \in unreadable
           THEN UNCHANGED <<log, clear_cache_signal>>
           ELSE /\ log' = log \o rows
                /\ clear_cache_signal' = <<now>>
        /\ UNCHANGED <<now, user_sessions, user_data, conversations>>
        /\ UNCHANGED <<sync_vars, reminder_vars, closing, graph_vars>>

\* start_all's __main__: fix_stuck_active_breaks, then the dashboard and
\* the bot are started.  An error while saving is printed and the start
\* goes on.
Startup(unreadable) ==
    LET rows == fix_stuck_rows(unreadable)
    IN  /\ Len(log) + Len(rows) <= MaxRepairLog
        /\ log' = IF Day(now) \in unreadable THEN log ELSE log \o rows
        /\ user_sessions' = <<>>
        /\ user_data' = <<>>
        /\ conversations' = {}
        /\ consecutive_failures' = 0
        /\ circuit_open_until' = <<>>
        /\ initialized' = FALSE
        /\ tasks' = <<>>
        /\ outcomes' = <<>>
        /\ key_order' = <<>>
        /\ job' = <<>>
        /\ closing' = <<>>
        /\ graph_request' = <<>>
        /\ UNCHANGED <<now, reminders, clear_cache_signal>>

\* the Timestamp cell of an OUT row is emptied by an edit of the workbook
\* outside the program
DamageTimestamp(i) ==
    /\ log[i].action = "OUT"
    /\ log[i].timestamp # NaT
    /\ log' = [log EXCEPT ![i].timestamp = NaT]
    /\ UNCHANGED <<now, user_sessions, user_data, conversations>>
    /\ UNCHANGED <<sync_vars, reminder_vars, admin_vars, graph_vars>>

\* a button press while the repair of the log is looked at
RepairButtonCallback(user, chat, break_type_code, action_type) ==
    LET outcome == button_callback(user, chat, break_type_code, action_type, TRUE)
    IN  /\ Len(outcome.log) <= MaxRepairLog
        /\ Store(outcome)
        /\ UNCHANGED <<sync_vars, reminder_vars, admin_vars, graph_vars>>

(* ---------------------------- the dashboard --------------------------- *)
\* load_daily_data(): the rows of today's file
load_daily_data == DayRows(log, Day(now))

\* dt.strftime('%Y-%m-%d %I:%M:%S %p'): the date, the hour on the 12-hour
\* clock, the minute, the second and AM or PM
convert_to_ph_time(timestamp) ==
    LET hour == TimeOfDay(timestamp) \div 3600
    IN  [date |-> Day(timestamp),
         I |-> IF hour % 12 = 0 THEN 12 ELSE hour % 12,
         M |-> (TimeOfDay(timestamp) \div 60) % 60,
         S |-> TimeOfDay(timestamp) % 60,
         p |-> IF hour < 12 THEN "AM" ELSE "PM"]

\* the loop of get_active_breaks over the sorted rows: active is an
\* insertion-ordered dict, here the sequence of its values
RECURSIVE TrackActive(_, _)
TrackActive(active, rows) ==
    IF rows = <<>> THEN active
    ELSE LET row == Head(rows)
             data == [user_id |-> row.user_id, break_type |-> row.break_type,
                      out_time |-> row.timestamp]
             has == \E i \in 1..Len(active) : active[i].user_id = row.user_id
             next == IF row.action = "OUT"
                     THEN IF has
                          THEN [i \in 1..Len(active) |->
                                   IF active[i].user_id = row.user_id THEN data ELSE active[i]]
                          ELSE Append(active, data)
                     ELSE IF row.action = "BACK" /\ has
                     THEN SelectSeq(active, LAMBDA other : other.user_id # row.user_id)
                     ELSE active
         IN  TrackActive(next, Tail(rows))

\* ActiveBreak(...) of one value of active
ActiveBreak(data) ==
    [user_id |-> data.user_id,
     break_type |-> data.break_type,
     out_time |-> convert_to_ph_time(data.out_time),
     duration_minutes |-> Round1(now - data.out_time)]

\* sorted(results, key=duration_minutes, reverse=True): the longest break
\* first, breaks of the same duration in the order they had
RECURSIVE SortedByDuration(_)
SortedByDuration(results) ==
    IF results = <<>> THEN <<>>
    ELSE LET longest == CHOOSE i \in 1..Len(results) :
                           /\ \A j \in 1..Len(results) :
                                 results[j].duration_minutes <= results[i].duration_minutes
                           /\ \A j \in 1..(i - 1) :
                                 results[j].duration_minutes < results[i].duration_minutes
         IN  <<results[longest]>> \o
             SortedByDuration([j \in 1..(Len(results) - 1) |->
                                  IF j < longest THEN results[j] ELSE results[j + 1]])

\* get_active_breaks(): the agents the dashboard shows as on break
get_active_breaks ==
    LET active == TrackActive(<<>>, sort_values(load_daily_data))
    IN  SortedByDuration([i \in 1..Len(active) |-> ActiveBreak(active[i])])

(* ---------------------------- the lookback window --------------------- *)
\* the check_days query parameters that are tried: <<>> is a request
\* without the parameter
CheckDaysGiven == {<<>>, <<0>>, <<1>>, <<2>>, <<7>>, <<8>>}

\* check_days: int = Query(3, ge=1, le=7): the value the endpoint runs
\* with, or <<>> when the request is refused (HTTP 422) before it runs
QueryCheckDays(given) ==
    IF given = <<>> THEN <<3>>
    ELSE IF given[1] >= 1 /\ given[1] <= 7 THEN given
    ELSE <<>>

\* DELETE /api/system/force-close-all, with or without ?check_days=
ForceCloseRequest(given) ==
    LET check_days == QueryCheckDays(given)
    IN  IF check_days = <<>> THEN UNCHANGED vars
        ELSE ForceCloseReading(check_days[1], {})

\* midnight passes, over more days than the longest window but one
DayPasses ==
    /\ Day(now) < MaxWindowDay
    /\ now' = now + SecondsPerDay
    /\ UNCHANGED <<user_sessions, user_data, conversations, log>>
    /\ UNCHANGED <<sync_vars, reminder_vars, admin_vars, graph_vars>>

(* ---------------------------- force-close in two steps ---------------- *)
\* force_close_all_breaks runs in the dashboard, the bot in a process of its
\* own, and neither locks the log file.  The request up to its read of
\* today's file: it has found breaks to close and holds the file's rows and
\* the BACK rows it will add.
ForceCloseRead(check_days) ==
    /\ closing = <<>>
    /\ force_close_rows(check_days) # <<>>
    /\ closing' = <<[today |-> Day(now),
                     df |-> DayRows(log, Day(now)),
                     rows |-> force_close_rows(check_days)]>>
    /\ UNCHANGED <<bot_vars, sync_vars, reminder_vars, clear_cache_signal, graph_vars>>

\* the rest of the request: df.to_excel replaces today's file with the rows
\* read and the BACK rows, then the signal file is written
ForceCloseWrite ==
    /\ closing # <<>>
    /\ LET request == closing[1]
       IN  log' = SelectSeq(log, LAMBDA row : row.day # request.today)
                     \o request.df \o request.rows
    /\ Len(log') <= MaxLog
    /\ clear_cache_signal' = <<now>>
    /\ closing' = <<>>
    /\ UNCHANGED <<now, user_sessions, user_data, conversations, sync_vars, reminder_vars, graph_vars>>

\* reset_system: the dashboard's POST /api/system/reset writes the signal
\* file and nothing else
ResetSystem ==
    /\ clear_cache_signal' = <<now>>
    /\ UNCHANGED <<bot_vars, sync_vars, reminder_vars, closing, graph_vars>>

(* ---------------------------- Excel Online sync ----------------------- *)
SYNC_TIMEOUT_SECONDS == 5
CIRCUIT_BREAKER_THRESHOLD == 3
CIRCUIT_BREAKER_RESET_MINUTES == 5

\* how loop.create_task ends in sync_break_event
Schedulings == {"created", "raises"}
\* how the awaited client.add_table_row ends within the timeout
Results == {"success", "error", "exception"}

\* faulty variant: the expiry time is not looked at
is_circuit_open_never ==
    [open |-> FALSE, circuit_open_until |-> circuit_open_until]

\* _is_circuit_open(): the answer, and _circuit_open_until as it leaves it
\* (an expired one is reset to None)
is_circuit_open ==
    IF circuit_open_until = <<>>
    THEN [open |-> FALSE, circuit_open_until |-> <<>>]
    ELSE IF now >= circuit_open_until[1]
    THEN [open |-> FALSE, circuit_open_until |-> <<>>]
    ELSE [open |-> TRUE, circuit_open_until |-> circuit_open_until]

\* faulty variant: a success leaves the count as it is
record_success_keeps_count ==
    [consecutive_failures |-> consecutive_failures,
     circuit_open_until |-> circuit_open_until]

\* _record_success()
record_success == [consecutive_failures |-> 0,
                   circuit_open_until |-> circuit_open_until]

\* _record_failure() called at the time at
record_failure(at) ==
    LET failures == consecutive_failures + 1
    IN  [consecutive_failures |-> failures,
         circuit_open_until |->
             IF failures >= CIRCUIT_BREAKER_THRESHOLD
             THEN <<at + CIRCUIT_BREAKER_RESET_MINUTES * 60>>
             ELSE circuit_open_until]

\* a task of _add_break_event_safe: created, or awaiting get_table_info
\* (init_excel_handler) or add_table_row since sent_at.  trial records how
\* it passed the circuit check: "none" with the failure count below the
\* threshold, else (the breaker had tripped and its time is over) "first"
\* if no such call is in flight and "other" if one is.
Task(stage, sent_at, trial) ==
    [stage |-> stage, sent_at |-> sent_at, trial |-> trial]

InFlight(task) == task.stage # "created"

\* faulty variant: an exception of create_task is not caught
sync_break_event_uncaught(scheduling) ==
    [tasks |-> tasks,
     circuit_open_until |-> circuit_open_until,
     raised |-> scheduling = "raises"]

\* sync_break_event with EXCEL_SYNC_ENABLED: the tasks and the
\* _circuit_open_until it leaves, and whether an exception leaves it
sync_break_event(scheduling) ==
    LET circuit == is_circuit_open
    IN  [tasks |-> IF ~circuit.open /\ scheduling = "created"
                   THEN Append(tasks, Task("created", now, "none"))
                   ELSE tasks,
         circuit_open_until |-> circuit.circuit_open_until,
         raised |-> FALSE]

\* a call of add_table_row that is past its timeout
Overdue(task) ==
    task.stage = "add_table_row" /\ now >= task.sent_at + SYNC_TIMEOUT_SECONDS

\* asyncio.wait_for ends a call at its timeout, before anything later runs
NoOverdue == \A i \in 1..Len(tasks) : ~Overdue(tasks[i])

\* the event loop has run every created task to its first await: it does
\* so as soon as the handler that created it awaits its reply to Telegram
NoCreated == \A i \in 1..Len(tasks) : InFlight(tasks[i])

\* get_table_info has answered: the instants are minutes apart, GraphClient
\* retries a request three times, 1, 2 and 4 seconds apart
InitAnswered == \A i \in 1..Len(tasks) : tasks[i].stage # "get_table_info"

Remove(seq, i) == SubSeq(seq, 1, i - 1) \o SubSeq(seq, i + 1, Len(seq))

\* A button press handled with the sync enabled: log_break_activity saves
\* the row and calls sync_break_event inside try/except, the handler goes on.
SyncedButtonCallback(user, chat, break_type_code, action_type, scheduling) ==
    LET outcome == button_callback(user, chat, break_type_code, action_type, TRUE)
        sync == sync_break_event(scheduling)
    IN  /\ NoOverdue
        /\ NoCreated
        /\ Len(outcome.log) <= MaxSyncLog
        /\ Store(outcome)
        /\ IF outcome.log # log
           THEN /\ Len(sync.tasks) <= MaxTasks
                /\ tasks' = sync.tasks
                /\ circuit_open_until' = sync.circuit_open_until
           ELSE UNCHANGED <<tasks, circuit_open_until>>
        /\ UNCHANGED <<consecutive_failures, initialized, outcomes, reminder_vars, admin_vars, graph_vars>>

\* faulty variant: sync_break_event is called before the row is saved
synced_log_break_activity_sync_first(append_ok, scheduling) ==
    [tasks |-> sync_break_event(scheduling).tasks,
     circuit_open_until |-> sync_break_event(scheduling).circuit_open_until,
     raised |-> ~append_ok]

\* log_break_activity from df.to_excel on, with EXCEL_SYNC_AVAILABLE: when
\* to_excel raises, the exception leaves the function before the call of
\* sync_break_event
synced_log_break_activity(append_ok, scheduling) ==
    IF append_ok THEN sync_break_event(scheduling)
    ELSE [tasks |-> tasks, circuit_open_until |-> circuit_open_until, raised |-> TRUE]

\* A button press handled with the sync enabled and a log store that may
\* fail.  The handler calls log_break_activity exactly when it would add a
\* row with a store that works.
StoringSyncedButtonCallback(user, chat, break_type_code, action_type, append_ok, scheduling) ==
    LET outcome == button_callback(user, chat, break_type_code, action_type, append_ok)
        logs == button_callback(user, chat, break_type_code, action_type, TRUE).log # log
        sync == synced_log_break_activity(append_ok, scheduling)
    IN  /\ NoOverdue
        /\ NoCreated
        /\ Len(outcome.log) <= MaxSyncLog
        /\ Store(outcome)
        /\ IF logs
           THEN /\ Len(sync.tasks) <= MaxTasks
                /\ tasks' = sync.tasks
                /\ circuit_open_until' = sync.circuit_open_until
           ELSE UNCHANGED <<tasks, circuit_open_until>>
        /\ UNCHANGED <<consecutive_failures, initialized, outcomes, reminder_vars, admin_vars, graph_vars>>

\* the event loop runs a created task: add_break_event up to its first await
TaskStart(i) ==
    /\ NoOverdue
    /\ tasks[i].stage = "created"
    /\ \A j \in 1..(i - 1) : tasks[j].stage # "created"
    /\ LET circuit == is_circuit_open
       IN  /\ circuit_open_until' = circuit.circuit_open_until
           /\ tasks' = IF circuit.open
                       THEN Remove(tasks, i)
                       ELSE [tasks EXCEPT ![i] =
                                Task(IF initialized THEN "add_table_row"
                                                    ELSE "get_table_info",
                                     now,
                                     IF consecutive_failures < CIRCUIT_BREAKER_THRESHOLD
                                     THEN "none"
                                     ELSE IF \E j \in 1..Len(tasks) :
                                                InFlight(tasks[j]) /\ tasks[j].trial # "none"
                                     THEN "other"
                                     ELSE "first")]
    /\ UNCHANGED <<consecutive_failures, initialized, outcomes>>
    /\ UNCHANGED <<bot_vars, reminder_vars, admin_vars, graph_vars>>

\* init_excel_handler's get_table_info returns: the table is found and
\* add_table_row is called, or add_break_event records a failure
InitResult(i, found) ==
    /\ NoOverdue
    /\ tasks[i].stage = "get_table_info"
    /\ IF found
       THEN /\ initialized' = TRUE
            /\ tasks' = [tasks EXCEPT ![i] = Task("add_table_row", now, @.trial)]
            /\ UNCHANGED <<consecutive_failures, circuit_open_until, outcomes>>
       ELSE /\ consecutive_failures' = record_failure(now).consecutive_failures
            /\ circuit_open_until' = record_failure(now).circuit_open_until
            /\ tasks' = Remove(tasks, i)
            /\ outcomes' = Append(outcomes, "failure")
            /\ UNCHANGED initialized
    /\ UNCHANGED <<bot_vars, reminder_vars, admin_vars, graph_vars>>

\* add_table_row returns or raises within the timeout
TaskResult(i, result) ==
    /\ NoOverdue
    /\ tasks[i].stage = "add_table_row"
    /\ LET recorded == IF result = "success" THEN record_success
                                             ELSE record_failure(now)
       IN  /\ consecutive_failures' = recorded.consecutive_failures
           /\ circuit_open_until' = recorded.circuit_open_until
    /\ tasks' = Remove(tasks, i)
    /\ outcomes' = Append(outcomes, IF result = "success" THEN "success" ELSE "failure")
    /\ UNCHANGED initialized
    /\ UNCHANGED <<bot_vars, reminder_vars, admin_vars, graph_vars>>

\* asyncio.TimeoutError after SYNC_TIMEOUT_SECONDS
TaskTimeout(i) ==
    /\ Overdue(tasks[i])
    /\ LET recorded == record_failure(tasks[i].sent_at + SYNC_TIMEOUT_SECONDS)
       IN  /\ consecutive_failures' = recorded.consecutive_failures
           /\ circuit_open_until' = recorded.circuit_open_until
    /\ tasks' = Remove(tasks, i)
    /\ outcomes' = Append(outcomes, "failure")
    /\ UNCHANGED initialized
    /\ UNCHANGED <<bot_vars, reminder_vars, admin_vars, graph_vars>>

(* ---------------------------- Graph API client ------------------------ *)
MAX_RETRIES == 3
\* exponential backoff in seconds
RETRY_DELAYS == <<1, 2, 4>>

\* the HTTP statuses the Graph API is taken to answer with
Statuses == {200, 201, 204, 401, 404, 429, 500, 503}

Min(a, b) == IF a < b THEN a ELSE b

\* a call of _request: where it is (pc), the retry_count of the innermost
\* call, the HTTP requests made, the calls of refresh_access_token, the
\* seconds slept, and the value returned
Call(pc, retry_count, attempts, refreshes, slept, result) ==
    [pc |-> pc, retry_count |-> retry_count, attempts |-> attempts,
     refreshes |-> refreshes, slept |-> slept, result |-> result]

Returned(call, result) ==
    [call EXCEPT !.pc = "returned", !.result = result]

\* the first lines of _request(..., retry_count): without a token it
\* returns an error dict, with one it sends the HTTP request
Enter(call, retry_count, token) ==
    IF token
    THEN [call EXCEPT !.pc = "sending", !.retry_count = retry_count]
    ELSE Returned([call EXCEPT !.retry_count = retry_count], "No valid access token")

\* faulty variant: one retry more (retry_count <= MAX_RETRIES)
retry_one_more(call, exhausted) ==
    IF call.retry_count <= MAX_RETRIES
    THEN [call EXCEPT !.pc = "sleeping"]
    ELSE Returned(call, exhausted)

\* if retry_count < MAX_RETRIES: asyncio.sleep(delay), then the recursive
\* call; else the error dict
retry(call, exhausted) ==
    IF call.retry_count < MAX_RETRIES
    THEN [call EXCEPT !.pc = "sleeping"]
    ELSE Returned(call, exhausted)

\* the body of 'async with session.request(...) as response' for a
\* response with the status; refreshed: refresh_access_token() gives a
\* token; token: get_access_token() gives one in the recursive call
on_response(call, status, refreshed, token) ==
    LET sent == [call EXCEPT !.attempts = @ + 1]
    IN  IF status = 401 /\ call.retry_count = 0
        THEN LET asked == [sent EXCEPT !.refreshes = @ + 1]
             IN  IF refreshed THEN Enter(asked, call.retry_count + 1, token)
                 ELSE Returned(asked, "Token refresh failed")
        ELSE IF status = 429 THEN retry(sent, "Rate limit exceeded after retries")
        ELSE IF status >= 500 THEN retry(sent, "Server error after retries")
        ELSE IF status = 204 THEN Returned(sent, "success")
        ELSE IF status \in {200, 201} THEN Returned(sent, "json")
        ELSE Returned(sent, "HTTP error")

\* except aiohttp.ClientError
on_client_error(call) ==
    retry([call EXCEPT !.attempts = @ + 1], "ClientError")

\* client.get / client.post: _request is called with retry_count 0
GraphCall(token) ==
    /\ graph_request = <<>>
    /\ graph_request' = <<Enter(Call("entered", 0, 0, 0, 0, None), 0, token)>>
    /\ UNCHANGED <<bot_vars, sync_vars, reminder_vars, admin_vars>>

\* the server answers the HTTP request
Response(status, refreshed, token) ==
    /\ graph_request # <<>>
    /\ graph_request[1].pc = "sending"
    /\ graph_request' = <<on_response(graph_request[1], status, refreshed, token)>>
    /\ UNCHANGED <<bot_vars, sync_vars, reminder_vars, admin_vars>>

\* the HTTP request fails with an aiohttp.ClientError
ConnectionError ==
    /\ graph_request # <<>>
    /\ graph_request[1].pc = "sending"
    /\ graph_request' = <<on_client_error(graph_request[1])>>
    /\ UNCHANGED <<bot_vars, sync_vars, reminder_vars, admin_vars>>

\* asyncio.sleep(delay) is over: the recursive call with retry_count + 1;
\* the seconds slept are counted in the call, the passing of time is Tick
Wake(token) ==
    /\ graph_request # <<>>
    /\ graph_request[1].pc = "sleeping"
    /\ LET call == graph_request[1]
           delay == RETRY_DELAYS[Min(call.retry_count, Len(RETRY_DELAYS) - 1) + 1]
       IN  graph_request' = <<Enter([call EXCEPT !.slept = @ + delay],
                                    call.retry_count + 1, token)>>
    /\ UNCHANGED <<bot_vars, sync_vars, reminder_vars, admin_vars>>

\* the caller has the value _request returned
GraphDone ==
    /\ graph_request # <<>>
    /\ graph_request[1].pc = "returned"
    /\ graph_request' = <<>>
    /\ UNCHANGED <<bot_vars, sync_vars, reminder_vars, admin_vars>>

\* the steps of a call once it is made
GraphStep ==
    \/ \E status \in Statuses, refreshed \in BOOLEAN, token \in BOOLEAN :
          Response(status, refreshed, token)
    \/ ConnectionError
    \/ \E token \in BOOLEAN : Wake(token)
    \/ GraphDone

(* ---------------------------- reminders ------------------------------- *)
\* reminder_config: minutes after which a break of the type is reminded
reminder_config == ("Smoke Break" :> 15) @@ ("Eating" :> 60)

\* persons whose chat may refuse a message (the bot is blocked there):
\* context.bot.send_message raises
Refusing == {7}

\* faulty variant: the session is left without the flag
reminded_unflagged(session) == session
\* session['reminder_sent'] = True
reminded(session) == Put(session, "reminder_sent", TRUE)

\* session.get(key) is true: the key is there with the value True
Get(session, key) == key \in DOMAIN session /\ session[key]

\* faulty variant: every break type is reminded after 15 minutes
NeedsReminder_any_type(session, at) ==
    /\ Get(session, "active")
    /\ ~Get(session, "reminder_sent")
    /\ at - session.start_time >= 15 * 60

\* the conditions under which the loop body reaches send_message for a
\* session, with the job's now
NeedsReminder(session, at) ==
    /\ Get(session, "active")
    /\ ~Get(session, "reminder_sent")
    /\ session.break_type \in DOMAIN reminder_config
    /\ at - session.start_time >= reminder_config[session.break_type] * 60

\* the run of the job that awaits send_message for the session at
\* position index of user_sessions.items()
Run(index, size, at, sessions) ==
    [index |-> index, size |-> size, now |-> at,
     user_id |-> key_order[index], session |-> sessions[key_order[index]]]

\* the for loop from position index on, up to its first await: the run
\* that awaits, or <<>> when the loop ends without one
RECURSIVE Scan(_, _, _, _)
Scan(index, size, at, sessions) ==
    IF index > Len(key_order) THEN <<>>
    ELSE IF NeedsReminder(sessions[key_order[index]], at)
         THEN <<Run(index, size, at, sessions)>>
         ELSE Scan(index + 1, size, at, sessions)

\* target_chat_id = group_chat_id if group_chat_id else user_id
target_chat_id(run) ==
    IF run.session.group_chat_id # None
    THEN run.session.group_chat_id
    ELSE run.user_id

Reminder(run) ==
    [chat_id |-> target_chat_id(run), user_id |-> run.user_id,
     break_type |-> run.session.break_type,
     start_time |-> run.session.start_time]

\* user_sessions.items() yields keys in the order of their first insertion
KeyOrderAfter(sessions) ==
    LET added == DOMAIN sessions \ DOMAIN user_sessions
    IN  IF added = {} THEN key_order
        ELSE Append(key_order, CHOOSE user \in added : TRUE)

\* a button press handled while the reminder job may be waiting
RemindedButtonCallback(user, chat, break_type_code, action_type) ==
    LET outcome == button_callback(user, chat, break_type_code, action_type, TRUE)
    IN  /\ Len(outcome.log) <= MaxReminderLog
        /\ Store(outcome)
        /\ key_order' = KeyOrderAfter(outcome.user_sessions)
        /\ UNCHANGED <<job, reminders, sync_vars, admin_vars, graph_vars>>

\* the job queue calls check_break_reminders (every 60 seconds, never
\* while a run is in progress): it runs to its first send_message
JobStart ==
    /\ job = <<>>
    /\ job' = Scan(1, Len(key_order), now, user_sessions)
    /\ UNCHANGED <<bot_vars, sync_vars, key_order, reminders, admin_vars, graph_vars>>

\* send_message raises: the exception ends the run
SendFails ==
    /\ job # <<>>
    /\ job[1].user_id \in Refusing
    /\ job' = <<>>
    /\ UNCHANGED <<bot_vars, sync_vars, key_order, reminders, admin_vars, graph_vars>>

\* faulty variant: the flag is set on whatever session the person has now
flag_session_by_key(run) ==
    [user_sessions EXCEPT ![run.user_id] = reminded(@)]

\* session['reminder_sent'] = True on the dict the loop variable holds.  The
\* handlers never change a session dict, they put a new one in its place,
\* and a new one differs from the one the loop holds (it is not active, or
\* it starts after the job's now): the dict the loop holds is still the
\* person's session exactly when the two are equal.
flag_session(run) ==
    IF user_sessions[run.user_id] = run.session
    THEN [user_sessions EXCEPT ![run.user_id] = reminded(run.session)]
    ELSE user_sessions

\* a break command handled while the reminder job may be waiting
RemindedBreakCommand(user, chat, break_type_code, action_type, reason_from_command) ==
    LET outcome == handle_break_command(user, chat, break_type_code, action_type, reason_from_command, TRUE)
    IN  /\ Len(outcome.log) <= MaxReminderLog
        /\ Store(outcome)
        /\ key_order' = KeyOrderAfter(outcome.user_sessions)
        /\ UNCHANGED <<job, reminders, sync_vars, admin_vars, graph_vars>>

\* send_message returns: the flag is set on the session object the loop
\* holds, which is in user_sessions unless a handler has replaced it; the
\* loop goes on, and its iterator raises RuntimeError if user_sessions has
\* changed size during the await
SendDone ==
    /\ job # <<>>
    /\ Len(reminders) < MaxReminders
    /\ LET run == job[1]
           sessions == flag_session(run)
       IN  /\ reminders' = Append(reminders, Reminder(run))
           /\ user_sessions' = sessions
           /\ job' = IF Len(key_order) # run.size THEN <<>>
                     ELSE Scan(run.index + 1, run.size, run.now, sessions)
    /\ UNCHANGED <<now, user_data, conversations, log, sync_vars, key_order, admin_vars, graph_vars>>

JobStep == JobStart \/ SendFails \/ SendDone

(* ---------------------------- specification --------------------------- *)
\* The updates Telegram delivers from the given users in the given chats:
\* button presses <<user, chat, data>>, break commands <<user, chat,
\* command, text after it>> and text messages.  A command carries text
\* after it exactly when it is /o1.
ButtonPresses(users, chats) == users \X chats \X BreakTypeCodes \X ActionTypes
BreakCommands(users, chats) ==
    {command \in users \X chats \X BreakTypeCodes \X ActionTypes
                  \X (Reasons \cup {None}) :
        (command[5] # None) <=> (command[3] = "O" /\ command[4] = "1")}
TextMessages(users, chats) == users \X chats \X Reasons

\* one update handled by the bot; stores is {TRUE} for a log store that
\* works and BOOLEAN for one that may fail
BotStep(users, chats, stores) ==
    \/ \E press \in ButtonPresses(users, chats), append_ok \in stores :
          ButtonCallback(press[1], press[2], press[3], press[4], append_ok)
    \/ \E text \in TextMessages(users, chats), append_ok \in stores :
          HandleReason(text[1], text[2], text[3], append_ok)
    \/ \E user \in users, chat \in chats : Cancel(user, chat)
    \/ \E command \in BreakCommands(users, chats), append_ok \in stores :
          HandleBreakCommand(command[1], command[2], command[3], command[4],
                             command[5], append_ok)

\* Spec: both persons talk to the bot in private chats, the log store works
\* and the bot process keeps running.
Next ==
    \/ BotStep(Persons, {"private"}, {TRUE}) /\ UNCHANGED <<sync_vars, reminder_vars, admin_vars, graph_vars>>
    \/ Tick /\ UNCHANGED <<sync_vars, reminder_vars, admin_vars, graph_vars>>

Spec == Init /\ [][Next]_vars

\* SpecStorage: one person, appends to the log file may fail.
NextStorage ==
    \/ BotStep({7}, {"private"}, BOOLEAN) /\ UNCHANGED <<sync_vars, reminder_vars, admin_vars, graph_vars>>
    \/ Tick /\ UNCHANGED <<sync_vars, reminder_vars, admin_vars, graph_vars>>
    \/ Restart

SpecStorage == Init /\ [][NextStorage]_vars

\* SpecAdmin: one person over several days, with the dashboard's
\* force-close and restarts of the bot.
NextAdmin ==
    \/ BotStep({7}, {"private"}, {TRUE}) /\ UNCHANGED <<sync_vars, reminder_vars, admin_vars, graph_vars>>
    \/ Tick /\ UNCHANGED <<sync_vars, reminder_vars, admin_vars, graph_vars>>
    \/ NextDay /\ UNCHANGED <<sync_vars, reminder_vars, admin_vars, graph_vars>>
    \/ Restart
    \/ \E check_days \in CheckDays :
          ForceClose(check_days) /\ UNCHANGED <<sync_vars, reminder_vars, closing, graph_vars>>

SpecAdmin == Init /\ [][NextAdmin]_vars

\* SpecSync: one person starts and ends Comfort Room breaks with the Excel
\* Online sync enabled.
NextSync ==
    \/ \E action_type \in ActionTypes, scheduling \in Schedulings :
          SyncedButtonCallback(7, "private", "C", action_type, scheduling)
    \/ \E i \in 1..Len(tasks) : TaskStart(i)
    \/ \E i \in 1..Len(tasks), found \in BOOLEAN : InitResult(i, found)
    \/ \E i \in 1..Len(tasks), result \in Results : TaskResult(i, result)
    \/ \E i \in 1..Len(tasks) : TaskTimeout(i)
    \/ /\ NoOverdue /\ NoCreated /\ InitAnswered
       /\ Tick
       /\ UNCHANGED <<sync_vars, reminder_vars, admin_vars, graph_vars>>

SpecSync == Init /\ [][NextSync]_vars

\* SpecSyncStore: as SpecSync, with appends to the log file that may fail.
NextSyncStore ==
    \/ \E action_type \in ActionTypes, append_ok \in BOOLEAN, scheduling \in Schedulings :
          StoringSyncedButtonCallback(7, "private", "C", action_type, append_ok, scheduling)
    \/ \E i \in 1..Len(tasks) : TaskStart(i)
    \/ \E i \in 1..Len(tasks), found \in BOOLEAN : InitResult(i, found)
    \/ \E i \in 1..Len(tasks), result \in Results : TaskResult(i, result)
    \/ \E i \in 1..Len(tasks) : TaskTimeout(i)
    \/ /\ NoOverdue /\ NoCreated /\ InitAnswered
       /\ Tick
       /\ UNCHANGED <<sync_vars, reminder_vars, admin_vars, graph_vars>>

SpecSyncStore == Init /\ [][NextSyncStore]_vars

\* SpecGraph: calls of the Graph API client, one at a time, each HTTP
\* request of which is answered or fails.
NextGraph ==
    \/ \E token \in BOOLEAN : GraphCall(token)
    \/ \E status \in Statuses, refreshed \in BOOLEAN, token \in BOOLEAN :
          Response(status, refreshed, token)
    \/ ConnectionError
    \/ \E token \in BOOLEAN : Wake(token)
    \/ GraphDone
    \/ Tick /\ UNCHANGED <<sync_vars, reminder_vars, admin_vars, graph_vars>>

SpecGraph == Init /\ [][NextGraph]_vars /\ WF_vars(GraphStep)

\* SpecReminders: two persons start and end Smoke and Comfort Room breaks
\* while the job queue keeps running check_break_reminders.
NextReminders ==
    \/ \E user \in Persons, break_type_code \in {"S", "C"}, action_type \in ActionTypes :
          RemindedButtonCallback(user, "private", break_type_code, action_type)
    \/ Tick /\ UNCHANGED <<sync_vars, reminder_vars, admin_vars, graph_vars>>
    \/ JobStart
    \/ SendFails
    \/ SendDone

SpecReminders == Init /\ [][NextReminders]_vars /\ WF_vars(JobStep)

\* SpecDispatch: two persons start and end breaks of every type, in private
\* and in the group chat, over two days, while the job queue runs
\* check_break_reminders.
NextDispatch ==
    \/ \E user \in Persons, chat \in Chats, break_type_code \in {"E", "S", "C"}, action_type \in ActionTypes :
          RemindedButtonCallback(user, chat, break_type_code, action_type)
    \/ \E user \in Persons, chat \in Chats, reason \in Reasons :
          RemindedBreakCommand(user, chat, "O", "1", reason)
    \/ Tick /\ UNCHANGED <<sync_vars, reminder_vars, admin_vars, graph_vars>>
    \/ NextDay /\ UNCHANGED <<sync_vars, reminder_vars, admin_vars, graph_vars>>
    \/ JobStart
    \/ SendFails
    \/ SendDone

SpecDispatch == Init /\ [][NextDispatch]_vars

\* SpecDashboard: both persons talk to the bot in private chats over two
\* days, the log store works and nothing is restarted.
NextDashboard ==
    \/ BotStep(Persons, {"private"}, {TRUE}) /\ UNCHANGED <<sync_vars, reminder_vars, admin_vars, graph_vars>>
    \/ Tick /\ UNCHANGED <<sync_vars, reminder_vars, admin_vars, graph_vars>>
    \/ NextDay /\ UNCHANGED <<sync_vars, reminder_vars, admin_vars, graph_vars>>

SpecDashboard == Init /\ [][NextDashboard]_vars

\* SpecConsistency: one person, appends to the log file may fail, nothing
\* is restarted.
NextConsistency ==
    \/ BotStep({7}, {"private"}, BOOLEAN) /\ UNCHANGED <<sync_vars, reminder_vars, admin_vars, graph_vars>>
    \/ Tick /\ UNCHANGED <<sync_vars, reminder_vars, admin_vars, graph_vars>>

SpecConsistency == Init /\ [][NextConsistency]_vars

\* SpecWindow: two persons start and end Eating breaks at midnight of four
\* days; the system is started and the force-close is called with and
\* without check_days.
NextWindow ==
    \/ \E user \in Persons, action_type \in ActionTypes :
          RepairButtonCallback(user, "private", "E", action_type)
    \/ DayPasses
    \/ \E given \in CheckDaysGiven : ForceCloseRequest(given)
    \/ Startup({})

SpecWindow == Init /\ [][NextWindow]_vars

\* SpecRepair: two persons start and end Eating breaks at midnight of two
\* days; log files get damaged; the system is started and the force-close
\* is called.
NextRepair ==
    \/ \E user \in Persons, action_type \in ActionTypes :
          RepairButtonCallback(user, "private", "E", action_type)
    \/ NextDay /\ UNCHANGED <<sync_vars, reminder_vars, admin_vars, graph_vars>>
    \/ \E i \in 1..Len(log) : DamageTimestamp(i)
    \/ \E check_days \in CheckDays, unreadable \in UnreadableDays :
          ForceCloseReading(check_days, unreadable)
    \/ \E unreadable \in UnreadableDays : Startup(unreadable)

SpecRepair == Init /\ [][NextRepair]_vars

\* SpecRace: one person uses the bot while the dashboard's force-close
\* requests are served.
NextRace ==
    \/ BotStep({7}, {"private"}, {TRUE}) /\ UNCHANGED <<sync_vars, reminder_vars, admin_vars, graph_vars>>
    \/ Tick /\ UNCHANGED <<sync_vars, reminder_vars, admin_vars, graph_vars>>
    \/ \E check_days \in CheckDays : ForceCloseRead(check_days)
    \/ ForceCloseWrite

SpecRace == Init /\ [][NextRace]_vars

\* SpecReset: two persons use the bot, its reminder job keeps running, and
\* the dashboard's reset and force-close endpoints are called.
NextReset ==
    \/ \E user \in Persons, break_type_code \in {"S", "C"}, action_type \in ActionTypes :
          RemindedButtonCallback(user, "private", break_type_code, action_type)
    \/ Tick /\ UNCHANGED <<sync_vars, reminder_vars, admin_vars, graph_vars>>
    \/ JobStart
    \/ SendFails
    \/ SendDone
    \/ ResetSystem
    \/ \E check_days \in CheckDays :
          ForceClose(check_days) /\ UNCHANGED <<sync_vars, reminder_vars, closing, graph_vars>>

SpecReset == Init /\ [][NextReset]_vars /\ WF_vars(JobStep)

(* ---------------------------- properties ------------------------------ *)
\* person p has an active session
HasSession(p) == p \in DOMAIN user_sessions /\ user_sessions[p].active

EventsOf(rows, p) == SelectSeq(rows, LAMBDA row : row.user_id = p)

\* the handler left the dicts and the log as they were
Untouched(o) ==
    /\ o.user_sessions = user_sessions
    /\ o.user_data = user_data
    /\ o.conversations = conversations
    /\ o.log = log

\* o appended exactly one row to the log
AppendedOne(o) == Len(o.log) = Len(log) + 1 /\ SubSeq(o.log, 1, Len(log)) = log
LastRow(rows) == rows[Len(rows)]

\* C1: once person p has an active session, no step replaces it or changes
\* its break type or start time (it can only end), and no further OUT row
\* of p is appended while it is active.
C1_SessionNeverOverwritten ==
    [][\A p \in Persons :
          HasSession(p) =>
             /\ HasSession(p)' =>
                   /\ user_sessions'[p].break_type = user_sessions[p].break_type
                   /\ user_sessions'[p].start_time = user_sessions[p].start_time
             /\ \A i \in (Len(log) + 1)..Len(log') :
                   ~(log'[i].user_id = p /\ log'[i].action = "OUT")]_vars

\* the actions of rows alternate OUT, BACK, OUT, ... starting with OUT
RECURSIVE Alternates(_, _)
Alternates(rows, expected) ==
    \/ rows = <<>>
    \/ /\ Head(rows).action = expected
       /\ Alternates(Tail(rows), IF expected = "OUT" THEN "BACK" ELSE "OUT")

\* C2: in the log, each person's OUT and BACK rows alternate, beginning
\* with an OUT.
C2_OutBackAlternate ==
    \A p \in Persons : Alternates(EventsOf(log, p), "OUT")

\* C3: a start request (button or command, any break type) of a person with
\* an active session is answered AlreadyActive with the active break type
\* and leaves sessions, drafts, conversations and log as they were.
C3_StartWhileActiveRejected ==
    \A user \in Persons :
       HasSession(user) =>
          \A chat \in Chats, code \in BreakTypeCodes, ok \in BOOLEAN :
             LET expected == [kind |-> "AlreadyActive",
                              break_type |-> user_sessions[user].break_type]
                 b == button_callback(user, chat, code, "1", ok)
             IN  /\ b.reply = expected
                 /\ Untouched(b)
                 /\ \A reason \in Reasons \cup {None} :
                       LET c == handle_break_command(user, chat, code, "1",
                                                     reason, ok)
                       IN  c.reply = expected /\ Untouched(c)

C3_Witness ==
    \E user \in Persons :
       /\ HasSession(user)
       /\ user_sessions[user].break_type = "Eating"
       /\ EventsOf(log, user) # <<>>
       /\ button_callback(user, "private", "S", "1", TRUE).reply.kind = "AlreadyActive"

\* C4: an end request of a person with no active session is answered
\* NoActiveBreak and leaves everything as it was; and a person whose last
\* row in the log is a BACK has no active session, so the end request
\* after a successful one is such a request.
C4_EndWithoutSessionRejected ==
    \A user \in Persons :
       /\ ~HasSession(user) =>
             \A chat \in Chats, code \in BreakTypeCodes, ok \in BOOLEAN :
                LET b == button_callback(user, chat, code, "2", ok)
                    c == handle_break_command(user, chat, code, "2", None, ok)
                IN  /\ b.reply = [kind |-> "NoActiveBreak"] /\ Untouched(b)
                    /\ c.reply = [kind |-> "NoActiveBreak"] /\ Untouched(c)
       /\ LET rows == EventsOf(log, user)
          IN  (rows # <<>> /\ LastRow(rows).action = "BACK") => ~HasSession(user)

C4_Witness ==
    \E user \in Persons :
       /\ user \in DOMAIN user_sessions
       /\ ~user_sessions[user].active
       /\ LastRow(log).user_id = user
       /\ LastRow(log).action = "BACK"
       /\ button_callback(user, "private", "E", "2", TRUE).reply.kind = "NoActiveBreak"

\* C5: an end request for a break type other than the active session's is
\* answered CategoryMismatch with both types and leaves everything as it
\* was, so that in the same state the end request for the session's own
\* type succeeds with the duration counted from the session's start time.
C5_MismatchRejected ==
    \A user \in Persons :
       HasSession(user) =>
          \A chat \in Chats, code \in BreakTypeCodes, ok \in BOOLEAN :
             LET session == user_sessions[user]
                 b == button_callback(user, chat, code, "2", ok)
                 c == handle_break_command(user, chat, code, "2", None, ok)
                 mismatch == [kind |-> "CategoryMismatch",
                              break_type |-> break_types(code),
                              active_break_type |-> session.break_type]
             IN  IF break_types(code) # session.break_type
                 THEN /\ b.reply = mismatch /\ Untouched(b)
                      /\ c.reply = mismatch /\ Untouched(c)
                 ELSE ok =>
                      /\ b.reply.kind = "BreakEnded"
                      /\ b.reply.duration = Round1(now - session.start_time)
                      /\ c.reply.kind = "BreakEnded"
                      /\ c.reply.duration = Round1(now - session.start_time)

C5_Witness ==
    \E user \in Persons :
       /\ HasSession(user)
       /\ user_sessions[user].break_type = "Smoke Break"
       /\ user_sessions[user].start_time < now
       /\ button_callback(user, "private", "E", "2", TRUE).reply.kind = "CategoryMismatch"
       /\ button_callback(user, "private", "S", "2", TRUE).reply.kind = "BreakEnded"

\* the session o holds for user: active, of the type of code, started at start,
\* with reminder_sent present (and False) exactly for Eating and Smoke Break
StartedSession(o, user, code, start) ==
    LET session == o.user_sessions[user]
    IN  /\ session.active
        /\ session.break_type = break_types(code)
        /\ session.start_time = start
        /\ ("reminder_sent" \in DOMAIN session) <=> (code \in {"E", "S"})
        /\ ("reminder_sent" \in DOMAIN session) => (session.reminder_sent = FALSE)

\* o appended exactly one OUT row for user: the break type of code, the
\* timestamp start, no duration
OneOutAppended(o, user, code, start) ==
    /\ AppendedOne(o)
    /\ LET row == LastRow(o.log)
       IN  /\ row.user_id = user
           /\ row.action = "OUT"
           /\ row.break_type = break_types(code)
           /\ row.timestamp = start
           /\ row.duration = <<>>

\* C6: a start request of a person with no active session whose row is
\* appended (button E1, C1, S1; command with any type, /o1 with its
\* reason; the reason that follows an O1) is answered BreakStarted, stores
\* a session of that type started at the request's timestamp (for the
\* reason: the timestamp recorded with the O1), with reminder_sent = False
\* exactly for Eating and Smoke Break, and appends exactly one OUT row
\* with that timestamp, that type and no duration.
C6_StartCreatesSession ==
    \A user \in Persons :
       ~HasSession(user) =>
          /\ \A chat \in Chats, code \in BreakTypeCodes \ {"O"} :
                LET o == button_callback(user, chat, code, "1", TRUE)
                IN  /\ o.reply.kind = "BreakStarted"
                    /\ StartedSession(o, user, code, now)
                    /\ OneOutAppended(o, user, code, now)
          /\ \A chat \in Chats, code \in BreakTypeCodes, reason \in Reasons \cup {None} :
                (code = "O" => reason # None) =>
                   LET o == handle_break_command(user, chat, code, "1", reason, TRUE)
                   IN  /\ o.reply.kind = "BreakStarted"
                       /\ StartedSession(o, user, code, now)
                       /\ OneOutAppended(o, user, code, now)
          /\ \A chat \in Chats, reason \in Reasons :
                <<chat, user>> \in conversations =>
                   LET o == handle_reason(user, chat, reason, TRUE)
                   IN  /\ o.reply.kind = "BreakStarted"
                       /\ StartedSession(o, user, "O", user_data[user].start_time)
                       /\ OneOutAppended(o, user, "O", user_data[user].start_time)

C6_Witness ==
    \E user \in Persons :
       /\ HasSession(user)
       /\ user_sessions[user].break_type = "Eating"
       /\ user_sessions[user].reminder_sent = FALSE
       /\ user_sessions[user].start_time = now
       /\ now > 0
       /\ LastRow(log).user_id = user
       /\ LastRow(log).action = "OUT"
       /\ LastRow(log).timestamp = now

\* C7: an end request for the active session's type whose row is appended
\* appends exactly one BACK row with that type, the session's reason and
\* duration = round((now - start) / 60, 1), and ends the session.
C7_EndAppendsBackWithDuration ==
    \A user \in Persons :
       HasSession(user) =>
          \A chat \in Chats, code \in BreakTypeCodes :
             break_types(code) = user_sessions[user].break_type =>
                \A o \in {button_callback(user, chat, code, "2", TRUE),
                          handle_break_command(user, chat, code, "2", None, TRUE)} :
                   /\ AppendedOne(o)
                   /\ LastRow(o.log).user_id = user
                   /\ LastRow(o.log).action = "BACK"
                   /\ LastRow(o.log).break_type = break_types(code)
                   /\ LastRow(o.log).timestamp = now
                   /\ LastRow(o.log).duration =
                         <<Round1(now - user_sessions[user].start_time)>>
                   /\ LastRow(o.log).duration[1] >= 0
                   /\ LastRow(o.log).reason =
                         (IF "reason" \in DOMAIN user_sessions[user]
                          THEN user_sessions[user].reason ELSE "")
                   /\ ~o.user_sessions[user].active

\* a step in which user's start request for code is handled and its row appended
StartStep(user, chat, code) ==
    /\ log' # log
    /\ \/ code # "O" /\ ButtonCallback(user, chat, code, "1", TRUE)
       \/ \E reason \in Reasons \cup {None} :
             /\ code = "O" => reason # None
             /\ HandleBreakCommand(user, chat, code, "1", reason, TRUE)
       \/ code = "O" /\ \E reason \in Reasons : HandleReason(user, chat, reason, TRUE)

\* a step in which user's end request for code is handled and its row appended
EndStep(user, chat, code) ==
    /\ log' # log
    /\ \/ ButtonCallback(user, chat, code, "2", TRUE)
       \/ HandleBreakCommand(user, chat, code, "2", None, TRUE)

\* C8: a start step of a person with no active session appends one OUT row
\* and leaves a state in which the end request for the same type appends
\* one BACK row right after it and leaves no active session; and an end
\* step leaves a state in which a start request of any type succeeds.
C8_RoundTrip ==
    [][\A user \in Persons, chat \in Chats, code \in BreakTypeCodes :
          /\ (~HasSession(user) /\ StartStep(user, chat, code)) =>
                /\ HasSession(user)'
                /\ Len(log') = Len(log) + 1
                /\ \A o \in {button_callback(user, chat, code, "2", TRUE)',
                             handle_break_command(user, chat, code, "2", None, TRUE)'} :
                      /\ o.reply.kind = "BreakEnded"
                      /\ Len(o.log) = Len(log) + 2
                      /\ SubSeq(o.log, 1, Len(log)) = log
                      /\ o.log[Len(log) + 1].user_id = user
                      /\ o.log[Len(log) + 1].action = "OUT"
                      /\ o.log[Len(log) + 1].break_type = break_types(code)
                      /\ o.log[Len(log) + 2].user_id = user
                      /\ o.log[Len(log) + 2].action = "BACK"
                      /\ o.log[Len(log) + 2].break_type = break_types(code)
                      /\ ~o.user_sessions[user].active
          /\ (HasSession(user) /\ EndStep(user, chat, code)) =>
                /\ ~HasSession(user)'
                /\ \A chat2 \in Chats, code2 \in BreakTypeCodes :
                      /\ code2 # "O" =>
                            button_callback(user, chat2, code2, "1", TRUE)'.reply.kind
                               = "BreakStarted"
                      /\ handle_break_command(user, chat2, code2, "1",
                                              CHOOSE reason \in Reasons : TRUE,
                                              TRUE)'.reply.kind = "BreakStarted"]_vars

C8_Witness ==
    \E user \in Persons :
       /\ Len(EventsOf(log, user)) = 2
       /\ EventsOf(log, user)[1].action = "OUT"
       /\ EventsOf(log, user)[2].action = "BACK"
       /\ EventsOf(log, user)[2].break_type = EventsOf(log, user)[1].break_type
       /\ user \in DOMAIN user_sessions
       /\ ~user_sessions[user].active
       /\ button_callback(user, "private", "C", "1", TRUE).reply.kind = "BreakStarted"

\* an Other start without a reason is answered ReasonRequired, stores no
\* session and appends no row; the button records the request's timestamp
ReasonRequiredFirst ==
    \A user \in Persons :
       ~HasSession(user) =>
          \A chat \in Chats, ok \in BOOLEAN :
             LET b == button_callback(user, chat, "O", "1", ok)
                 c == handle_break_command(user, chat, "O", "1", None, ok)
             IN  /\ b.reply.kind = "ReasonRequired"
                 /\ b.user_sessions = user_sessions
                 /\ b.log = log
                 /\ b.user_data[user].start_time = now
                 /\ c.reply.kind = "ReasonRequired"
                 /\ Untouched(c)

\* the start time the session and the OUT row get if the reason arrives now
StartTimeOnReason(user, chat) ==
    LET o == handle_reason(user, chat, CHOOSE reason \in Reasons : TRUE, TRUE)
    IN  <<o.user_sessions[user].start_time, LastRow(o.log).timestamp>>

\* C9: an Other start without a reason is answered ReasonRequired, with no
\* session and no row; and from the request on, as long as the reason is
\* awaited, the start time the session and the OUT row get when the reason
\* arrives stays that of the request, whatever is handled in between.
C9_TwoPhaseOtherStart ==
    /\ []ReasonRequiredFirst
    /\ [][\A user \in Persons, chat \in Chats :
             /\ (<<chat, user>> \notin conversations /\ <<chat, user>> \in conversations') =>
                   StartTimeOnReason(user, chat)' = <<now, now>>
             /\ (<<chat, user>> \in conversations /\ <<chat, user>> \in conversations') =>
                   StartTimeOnReason(user, chat)' = StartTimeOnReason(user, chat)]_vars

\* C10: a start or end request whose append fails is answered with a
\* failure: the handler neither reports success nor ends without a reply.
C10_AppendFailureSurfaced ==
    \A user \in Persons, chat \in Chats, code \in BreakTypeCodes :
       LET Surfaced(o) == /\ o.reply # NoReply
                          /\ o.reply.kind \notin {"BreakStarted", "BreakEnded"}
       IN  /\ (~HasSession(user) /\ code # "O") =>
                 Surfaced(button_callback(user, chat, code, "1", FALSE))
           /\ (~HasSession(user) /\ code = "O") =>
                 Surfaced(handle_break_command(user, chat, code, "1",
                                               CHOOSE reason \in Reasons : TRUE, FALSE))
           /\ (HasSession(user) /\ user_sessions[user].break_type = break_types(code)) =>
                 /\ Surfaced(button_callback(user, chat, code, "2", FALSE))
                 /\ Surfaced(handle_break_command(user, chat, code, "2", None, FALSE))

\* the sync step in which a handled button press saved a row
SyncedStep ==
    /\ log' # log
    /\ \E action_type \in ActionTypes, scheduling \in Schedulings :
          SyncedButtonCallback(7, "private", "C", action_type, scheduling)

\* C11: whatever the sync does, no exception leaves sync_break_event; a
\* start or end handled with the sync enabled leaves the sessions, drafts,
\* conversations and log its handler leaves without the sync, records no
\* sync result and at most creates a task that has not run; and a step
\* that records a sync result leaves the sessions and the log alone.
C11_SyncAdvisory ==
    /\ [](\A scheduling \in Schedulings : ~sync_break_event(scheduling).raised)
    /\ [][/\ \A action_type \in ActionTypes, scheduling \in Schedulings :
                SyncedButtonCallback(7, "private", "C", action_type, scheduling) =>
                   LET o == button_callback(7, "private", "C", action_type, TRUE)
                   IN  /\ user_sessions' = o.user_sessions
                       /\ user_data' = o.user_data
                       /\ conversations' = o.conversations
                       /\ log' = o.log
                       /\ outcomes' = outcomes
                       /\ consecutive_failures' = consecutive_failures
                       /\ \A i \in 1..Len(tasks') :
                             i > Len(tasks) => tasks'[i].stage = "created"
           /\ outcomes' # outcomes =>
                 UNCHANGED <<user_sessions, user_data, conversations, log>>]_vars

C11_Witness ==
    /\ Len(log) >= 2
    /\ LastRow(log).action = "BACK"
    /\ outcomes # <<>>
    /\ LastRow(outcomes) = "failure"
    /\ \E i \in 1..Len(tasks) : tasks[i].stage = "add_table_row"
    /\ ~HasSession(7)

\* the number of failures at the end of the recorded results
RECURSIVE TrailingFailures(_)
TrailingFailures(results) ==
    IF results = <<>> \/ LastRow(results) # "failure" THEN 0
    ELSE 1 + TrailingFailures(SubSeq(results, 1, Len(results) - 1))

\* the time at which the result recorded in this step arrived: the end of
\* the timeout for a call past it, else now
ResultTime ==
    LET i == CHOOSE i \in 1..Len(tasks) : tasks' = Remove(tasks, i)
    IN  IF Overdue(tasks[i]) THEN tasks[i].sent_at + 5 ELSE now

\* the breaker is open: calls are refused
Open == circuit_open_until # <<>> /\ now < circuit_open_until[1]

\* C12: the failure count is the number of results recorded since the last
\* success (error results, exceptions and timeouts alike); a step opens the
\* breaker, until 5 minutes after the failure, exactly when it records a
\* failure that is at least the third in a row; no other step sets an
\* expiry time.
C12_BreakerTrip ==
    /\ [](consecutive_failures = TrailingFailures(outcomes))
    /\ [][IF outcomes' # outcomes /\ TrailingFailures(outcomes') >= 3
          THEN circuit_open_until' = <<ResultTime + 5 * 60>>
          ELSE circuit_open_until' \in {circuit_open_until, <<>>}]_vars

C12_Witness ==
    /\ Len(outcomes) >= 4
    /\ outcomes[Len(outcomes) - 3] = "success"
    /\ TrailingFailures(outcomes) = 3
    /\ Open

\* C13: while the breaker is open, a sync call (sync_break_event in a
\* handler, or a created task that starts to run) sends nothing to Excel
\* Online, creates no task, and leaves the failure count and the expiry
\* time as they were.
C13_OpenRejects ==
    [][(Open /\ (SyncedStep \/ \E i \in 1..Len(tasks) : TaskStart(i))) =>
          /\ SelectSeq(tasks', InFlight) = SelectSeq(tasks, InFlight)
          /\ Len(tasks') <= Len(tasks)
          /\ consecutive_failures' = consecutive_failures
          /\ circuit_open_until' = circuit_open_until
          /\ outcomes' = outcomes]_vars

\* a row was saved, and its sync call refused, after the breaker opened
C13_Witness ==
    /\ Open
    /\ consecutive_failures >= 3
    /\ log # <<>>
    /\ LastRow(log).timestamp = now
    /\ now > circuit_open_until[1] - 5 * 60
    /\ tasks = <<>>

\* C14: of the calls that pass the circuit check after the breaker tripped
\* and its time is over, at most one is in flight to Excel Online at a time.
C14_OneTrial ==
    Cardinality({i \in 1..Len(tasks) :
                    InFlight(tasks[i]) /\ tasks[i].trial # "none"}) <= 1

\* C15: when the result of the first call let through after the breaker's
\* time is over is recorded, no call from before the breaker tripped being
\* still in flight: a success leaves the breaker closed with the failure
\* count 0, a failure leaves it open until 5 minutes after it.
C15_TrialOutcome ==
    [][\A i \in 1..Len(tasks) :
          (/\ tasks[i].trial = "first"
           /\ \A j \in 1..Len(tasks) : tasks[j].sent_at >= tasks[i].sent_at
           /\ outcomes' # outcomes
           /\ tasks' = Remove(tasks, i)) =>
             IF LastRow(outcomes') = "success"
             THEN consecutive_failures' = 0 /\ circuit_open_until' = <<>>
             ELSE circuit_open_until' = <<ResultTime + 5 * 60>>]_vars

\* the session of user has its reminder_sent flag set
Flagged(sessions, user) ==
    user \in DOMAIN sessions /\ Get(sessions[user], "reminder_sent")

\* user has, after the step, the session it had before it
SameSession(user) ==
    /\ user \in DOMAIN user_sessions'
    /\ Get(user_sessions'[user], "active")
    /\ user_sessions'[user].start_time = user_sessions[user].start_time
    /\ user_sessions'[user].break_type = user_sessions[user].break_type

\* C16: no session is reminded twice, however often the job runs and
\* whatever the handlers do in between; and a session whose reminder_sent
\* flag is set keeps it set as long as it is that session.
C16_ReminderLatch ==
    /\ [](\A i, j \in 1..Len(reminders) : reminders[i] = reminders[j] => i = j)
    /\ [][\A user \in Persons :
              (Flagged(user_sessions, user) /\ SameSession(user)) =>
                 Flagged(user_sessions', user)]_vars

\* both persons have been reminded once, and a later run has ended
C16_Witness ==
    /\ Len(reminders) = 2
    /\ job = <<>>
    /\ \A user \in Persons : is_active(user) /\ Flagged(user_sessions, user)

\* the break of user is past its threshold and no reminder was sent for it
Unreminded(user) ==
    /\ is_active(user)
    /\ NeedsReminder(user_sessions[user], now)
    /\ \A i \in 1..Len(reminders) :
          reminders[i] # [chat_id |-> user, user_id |-> user,
                          break_type |-> user_sessions[user].break_type,
                          start_time |-> user_sessions[user].start_time]

\* C17: while the job keeps running, a break of person 42 (whose chat
\* accepts every message) that is past its threshold does not stay
\* unreminded for ever.
C17_ReminderLiveness == []<>~Unreminded(42)

\* C18: when a run of the force-close has written BACK rows, a second run
\* right after it, with the same check_days, writes none.
C18_IdempotentReconciliation ==
    [][\A check_days \in CheckDays :
          (ForceClose(check_days) /\ log' # log) =>
             force_close_rows(check_days)' = <<>>]_vars

\* the rows of the window of check_days days, the oldest day first and each
\* day's rows by timestamp
RECURSIVE ChronologicalRows(_)
ChronologicalRows(days_back) ==
    IF days_back < 0 THEN <<>>
    ELSE (IF now - days_back * SecondsPerDay < 0 THEN <<>>
          ELSE sort_values(DayRows(log, Day(now - days_back * SecondsPerDay))))
         \o ChronologicalRows(days_back - 1)

\* the events of user in the window, in chronological order
WindowEvents(user, check_days) ==
    SelectSeq(ChronologicalRows(check_days - 1), LAMBDA row : row.user_id = user)

\* user's last event in the window is an OUT
Orphan(user, check_days) ==
    /\ WindowEvents(user, check_days) # <<>>
    /\ LastRow(WindowEvents(user, check_days)).action = "OUT"

\* C19: the force-close writes one BACK row, of the break type of the last
\* OUT, for each person whose last event in the window (replayed from the
\* oldest day to the newest) is an OUT, and no row for anyone else.
C19_ClosesExactlyOrphans ==
    \A check_days \in CheckDays :
       LET rows == force_close_rows(check_days)
       IN  /\ \A user \in Persons :
                 Orphan(user, check_days) <=>
                    \E i \in 1..Len(rows) : rows[i].user_id = user
           /\ \A i, j \in 1..Len(rows) : rows[i].user_id = rows[j].user_id => i = j
           /\ \A i \in 1..Len(rows) :
                 /\ rows[i].action = "BACK"
                 /\ Orphan(rows[i].user_id, check_days) =>
                       rows[i].break_type =
                          LastRow(WindowEvents(rows[i].user_id, check_days)).break_type

\* C20: once the force-close has written a BACK row for a person, the
\* person has no active session: an end of break appends no second BACK.
C20_ForceCloseEndsSession ==
    [][\A check_days \in CheckDays :
          (ForceClose(check_days) /\ log' # log) =>
             \A user \in Persons :
                (\E i \in 1..Len(force_close_rows(check_days)) :
                    force_close_rows(check_days)[i].user_id = user) =>
                   /\ ~is_active(user)'
                   /\ \A code \in BreakTypeCodes :
                         button_callback(user, "private", code, "2", TRUE)'.log = log']_vars

\* C21: once the signal file is written, the bot comes to a state in which
\* nobody has an active session.
C21_ResetObserved ==
    (clear_cache_signal # <<>>) ~> (\A user \in Persons : ~is_active(user))

\* the last event of user in the log is an OUT
Unmatched(rows, user) ==
    EventsOf(rows, user) # <<>> /\ LastRow(EventsOf(rows, user)).action = "OUT"

\* C22: when the bot process has started again with an empty session
\* table, a person whose last logged event is an OUT is not given a new
\* start: no further OUT row is appended for that person.
C22_RecoveryAtStartup ==
    [][Restart =>
          \A user \in Persons, code \in BreakTypeCodes \ {"O"} :
             Unmatched(log', user) =>
                button_callback(user, "private", code, "1", TRUE)'.log = log']_vars

\* the rows of a occur in b, in the same order
RECURSIVE IsSubsequence(_, _)
IsSubsequence(a, b) ==
    IF a = <<>> THEN TRUE
    ELSE IF b = <<>> THEN FALSE
    ELSE IF Head(a) = Head(b) THEN IsSubsequence(Tail(a), Tail(b))
    ELSE IsSubsequence(a, Tail(b))

\* C23: no step removes, changes or reorders a row of a day's log file,
\* however the bot's appends and the force-close are interleaved.
C23_NoLostUpdate ==
    [][\A day \in 0..MaxDay :
          IsSubsequence(DayRows(log, day), DayRows(log', day))]_vars

\* C24: the rows of a person are in the log in the order in which the
\* requests that wrote them arrived (a row carries the arrival time of its
\* request; an Other start that of the press that asked for it).
C24_ArrivalOrder ==
    \A user \in Persons :
       LET events == EventsOf(log, user)
       IN  \A i, j \in 1..Len(events) :
              i < j => events[i].timestamp <= events[j].timestamp

\* the step is a run of the force-close or of the start-up repair that
\* looks at check_days days, of which the files of unreadable cannot be read
ReconciliationStep(check_days, unreadable) ==
    \/ ForceCloseReading(check_days, unreadable)
    \/ check_days = 3 /\ Startup(unreadable)

\* the row is a BACK written by the force-close or the start-up repair for
\* an OUT of the day date_str
Synthetic(row, date_str) ==
    /\ row.action = "BACK"
    /\ row.reason \in {ForceCloseReason(date_str), AutoCloseReason(date_str)}

\* C25: a run of the force-close or of the start-up repair leaves the file
\* of every earlier day as it was and adds only BACK rows, after the rows
\* that today's file already has.
C25_BackToTodayOnly ==
    [][\A check_days \in CheckDays, unreadable \in UnreadableDays :
          (log' # log /\ ReconciliationStep(check_days, unreadable)) =>
             \A day \in 0..MaxDay :
                LET before == DayRows(log, day)
                    after == DayRows(log', day)
                IN  IF day # Day(now) THEN after = before
                    ELSE /\ Len(after) > Len(before)
                         /\ SubSeq(after, 1, Len(before)) = before
                         /\ \A i \in (Len(before) + 1)..Len(after) :
                               after[i].action = "BACK"]_vars

\* the BACK of an OUT of day 0 is in the file of day 1
C25_Witness ==
    \E i \in 1..Len(log) :
       /\ Synthetic(log[i], 0)
       /\ log[i].day = 1
       /\ \E j \in 1..(i - 1) : log[j].action = "OUT" /\ log[j].day = 0

\* C28: a run passes over the files it cannot read and writes the BACK rows
\* of the breaks it finds open in the other files of the window.
C28_UnreadableSkipped ==
    [][\A check_days \in CheckDays, unreadable \in UnreadableDays :
          ReconciliationStep(check_days, unreadable) =>
             Len(log') = Len(log) + Len(stuck_breaks(check_days, unreadable))]_vars

\* C29: a run writes one BACK row for each break it finds open: with the
\* duration 0 where the timestamp of the OUT row cannot be parsed, and
\* with the time since the OUT for the others.
C29_MalformedTimestamp ==
    [][\A check_days \in CheckDays, unreadable \in UnreadableDays :
          (log' # log /\ ReconciliationStep(check_days, unreadable)) =>
             LET all_breaks == stuck_breaks(check_days, unreadable)
             IN  /\ Len(log') = Len(log) + Len(all_breaks)
                 /\ \A i \in 1..Len(all_breaks) :
                       LET written == log'[Len(log) + i]
                           out == all_breaks[i].row
                       IN  /\ written.user_id = all_breaks[i].user_id
                           /\ written.action = "BACK"
                           /\ written.duration =
                                 IF out.timestamp = NaT THEN <<0>>
                                 ELSE <<Round1(now - out.timestamp)>>]_vars

\* one run has closed a break whose OUT has no readable timestamp, with
\* the duration 0, and the break of the other person with its duration
C29_Witness ==
    \E i, j, k \in 1..Len(log) :
       /\ log[i].action = "OUT" /\ log[i].timestamp = NaT
       /\ Synthetic(log[j], log[i].day)
       /\ log[j].user_id = log[i].user_id
       /\ log[j].duration = <<0>>
       /\ Synthetic(log[k], log[i].day)
       /\ log[k].user_id # log[i].user_id
       /\ log[k].timestamp = log[j].timestamp
       /\ log[k].duration # <<0>>

\* C30: in the replay, a BACK row of a person who is not in all_breaks
\* leaves all_breaks as it is, whoever else is in it, and an OUT row of
\* that person after it puts the person in.
C30_UnmatchedBackIgnored ==
    \A check_days \in CheckDays, i \in 1..Len(log) :
       log[i].action = "BACK" =>
          LET user == log[i].user_id
              others == DelItem(stuck_breaks(check_days, {}), user)
          IN  /\ ReplayRows(others, <<log[i]>>, log[i].day) = others
              /\ ReplayRows(<<>>, <<log[i]>>, log[i].day) = <<>>
              /\ \A j \in 1..Len(log) :
                    (log[j].action = "OUT" /\ log[j].user_id = user) =>
                       LET after == ReplayRows(others, <<log[i], log[j]>>, log[j].day)
                       IN  /\ HasKey(after, user)
                           /\ DelItem(after, user) = others

\* a BACK row of one person is replayed while the other person has an open
\* break, and before the OUT row of an earlier day
C30_Witness ==
    \E i, j \in 1..Len(log) :
       /\ log[i].action = "BACK" /\ log[i].day = 1
       /\ log[j].action = "OUT" /\ log[j].day = 0
       /\ log[j].user_id = log[i].user_id
       /\ DelItem(stuck_breaks(3, {}), log[i].user_id) # <<>>
       /\ now = SecondsPerDay

\* the job calls send_message in this step: it starts to wait for a send
Dispatch == job' # <<>> /\ job' # job

\* C26: when the job calls send_message for a session, that session is the
\* person's session at that moment, it is active and not yet reminded, it
\* is a Smoke Break at least 15 minutes or an Eating break at least 60
\* minutes after its start, and never a Comfort Room or Other break; the
\* message sent goes to the group chat of the session if it has one and to
\* the person otherwise.
C26_ReminderConditions ==
    /\ [][Dispatch =>
            LET run == job'[1]
                session == run.session
                elapsed == run.now - session.start_time
            IN  /\ run.user_id \in DOMAIN user_sessions'
                /\ user_sessions'[run.user_id] = session
                /\ session.active = TRUE
                /\ ~("reminder_sent" \in DOMAIN session /\ session.reminder_sent = TRUE)
                /\ run.now <= now'
                /\ \/ session.break_type = break_types("S") /\ elapsed >= 15 * 60
                   \/ session.break_type = break_types("E") /\ elapsed >= 60 * 60
                /\ session.break_type \notin {break_types("C"), break_types("O")}]_vars
    /\ [][reminders' # reminders =>
            /\ job # <<>>
            /\ reminders' = Append(reminders, Reminder(job[1]))
            /\ IF job[1].session.group_chat_id = None
               THEN Reminder(job[1]).chat_id = job[1].user_id
               ELSE Reminder(job[1]).chat_id = job[1].session.group_chat_id]_vars

\* the reminder of a break started in the group chat has been sent, while
\* the other person has been in a Comfort Room or Other break for a day
\* without one
C26_Witness ==
    \E user, other \in DOMAIN user_sessions :
       /\ Get(user_sessions[user], "reminder_sent")
       /\ user_sessions[user].group_chat_id = "group"
       /\ \E i \in 1..Len(reminders) :
             /\ reminders[i].user_id = user
             /\ reminders[i].start_time = user_sessions[user].start_time
       /\ other # user
       /\ is_active(other)
       /\ user_sessions[other].break_type \in {break_types("C"), break_types("O")}
       /\ now - user_sessions[other].start_time >= SecondsPerDay
       /\ \A i \in 1..Len(reminders) : reminders[i].user_id # other

\* C27: a step of the reminder job leaves user_sessions as it is, except
\* that the return of send_message adds reminder_sent = True to the session
\* the message was sent for, and only if that session is still the
\* person's session.
C27_SchedulerReadOnly ==
    [][JobStep =>
          /\ DOMAIN user_sessions' = DOMAIN user_sessions
          /\ \A user \in DOMAIN user_sessions :
                \/ user_sessions'[user] = user_sessions[user]
                \/ /\ job # <<>>
                   /\ job[1].user_id = user
                   /\ user_sessions[user] = job[1].session
                   /\ reminders' = Append(reminders, Reminder(job[1]))
                   /\ user_sessions'[user] = [key \in DOMAIN user_sessions[user] \cup {"reminder_sent"} |->
                                                 IF key = "reminder_sent" THEN TRUE
                                                 ELSE user_sessions[user][key]]]_vars

\* a reminder was sent for a break of a person, the job's run is over, and
\* the person is in a later break of the same type that has no flag
C27_Witness ==
    /\ job = <<>>
    /\ \E i \in 1..Len(reminders) :
          LET user == reminders[i].user_id
          IN  /\ is_active(user)
              /\ user_sessions[user].break_type = reminders[i].break_type
              /\ user_sessions[user].start_time > reminders[i].start_time
              /\ ~Get(user_sessions[user], "reminder_sent")
              /\ now = user_sessions[user].start_time

\* the day is one of the check_days days that end today
InWindow(day, check_days) == day <= Day(now) /\ day > Day(now) - check_days

\* what a run over check_days days adds to the log: only BACK rows, each
\* for an OUT row of a day of the window; the same rows that a run over
\* seven days adds to a log without the rows of the earlier days; and a row
\* for the person whose only row in the window is an OUT
WindowRun(check_days) ==
    LET added == SubSeq(log', Len(log) + 1, Len(log'))
        recent == SelectSeq(log, LAMBDA row : InWindow(row.day, check_days))
        closed == CollectBreaks(<<>>, recent, 0, 7)
    IN  /\ check_days \in 1..7
        /\ SubSeq(log', 1, Len(log)) = log
        /\ \A i \in 1..Len(added) :
              /\ added[i].action = "BACK"
              /\ \E j \in 1..Len(log) :
                    /\ log[j].action = "OUT"
                    /\ log[j].user_id = added[i].user_id
                    /\ InWindow(log[j].day, check_days)
                    /\ Synthetic(added[i], log[j].day)
        /\ Len(added) = Len(closed)
        /\ \A i \in 1..Len(added) :
              /\ added[i].user_id = closed[i].user_id
              /\ Synthetic(added[i], closed[i].date_str)
        /\ \A j \in 1..Len(recent) :
              (/\ recent[j].action = "OUT"
               /\ \A k \in 1..Len(recent) : k # j => recent[k].user_id # recent[j].user_id)
                 => \E i \in 1..Len(added) : added[i].user_id = recent[j].user_id

\* C31: a force-close runs with a check_days from 1 to 7, 3 when none is
\* given, and the start-up repair with 3; a run closes OUT rows of today
\* and the check_days - 1 days before it only, and the rows of earlier days
\* make no difference to what it writes.
C31_LookbackWindow ==
    /\ [][\A given \in CheckDaysGiven :
            (log' # log /\ ForceCloseRequest(given)) =>
               /\ QueryCheckDays(given) # <<>>
               /\ given = <<>> => QueryCheckDays(given) = <<3>>
               /\ WindowRun(QueryCheckDays(given)[1])]_vars
    /\ [][(log' # log /\ Startup({})) => WindowRun(3)]_vars

\* on day 3 the start-up repair has closed the break of day 1 of one
\* person and left the break of day 0 of the other person open
C31_Witness ==
    \E i, j, k \in 1..Len(log) :
       /\ log[i].action = "OUT" /\ log[i].day = 0
       /\ \A m \in 1..Len(log) : m # i => log[m].user_id # log[i].user_id
       /\ log[j].action = "OUT" /\ log[j].day = 1
       /\ log[k].day = 3
       /\ log[k].action = "BACK"
       /\ log[k].reason = AutoCloseReason(1)
       /\ log[k].user_id = log[j].user_id

\* C32: the persons get_active_breaks returns, with break type and out
\* time, are the persons with an active session, with its break type and
\* start time.
C32_DashboardAgrees ==
    {[user_id |-> get_active_breaks[i].user_id,
      break_type |-> get_active_breaks[i].break_type,
      out_time |-> get_active_breaks[i].out_time] : i \in 1..Len(get_active_breaks)}
    = {[user_id |-> user,
        break_type |-> user_sessions[user].break_type,
        out_time |-> convert_to_ph_time(user_sessions[user].start_time)] :
          user \in {person \in Persons : is_active(person)}}

\* the rows of the person in the log, in the order they were appended
RowsOf(user) == SelectSeq(log, LAMBDA row : row.user_id = user)

\* the last row of the person is an OUT
LastIsOut(user) ==
    /\ RowsOf(user) # <<>>
    /\ RowsOf(user)[Len(RowsOf(user))].action = "OUT"

\* the person's session is the break of the last row of the person
SessionOfLastRow(user) ==
    LET last == RowsOf(user)[Len(RowsOf(user))]
    IN  /\ user_sessions[user].break_type = last.break_type
        /\ user_sessions[user].start_time = last.timestamp

\* C33: a person has an active session exactly when the last row of the
\* person in the log is an OUT, and then the session has the break type
\* and the start time of that row.
C33_SessionsMatchLog ==
    \A user \in Persons :
       /\ is_active(user) <=> LastIsOut(user)
       /\ is_active(user) /\ LastIsOut(user) => SessionOfLastRow(user)

\* the rows of the person in the file of the day, in file order
DayRowsOf(user, day) == SelectSeq(DayRows(log, day), LAMBDA row : row.user_id = user)

\* C34: in the file of every day the timestamps of the rows of each person
\* do not decrease, and the replay of the file sorted by Timestamp ends
\* with the same open breaks as the replay of the file in file order.
C34_SortedReplayIsFileOrder ==
    \A day \in 0..MaxDay :
       /\ \A user \in Persons :
             \A i, j \in 1..Len(DayRowsOf(user, day)) :
                i < j => DayRowsOf(user, day)[i].timestamp <= DayRowsOf(user, day)[j].timestamp
       /\ LET sorted == ReplayRows(<<>>, sort_values(DayRows(log, day)), day)
              filed == ReplayRows(<<>>, DayRows(log, day), day)
          IN  {sorted[i] : i \in 1..Len(sorted)} = {filed[i] : i \in 1..Len(filed)}

\* C35: _circuit_open_until is set only while _consecutive_failures is at
\* least CIRCUIT_BREAKER_THRESHOLD.
C35_OpenOnlyAtThreshold ==
    circuit_open_until # <<>> => consecutive_failures >= CIRCUIT_BREAKER_THRESHOLD

\* C36: a sync task is scheduled only in a step that has added a row to
\* the log, and it is the task of that row: scheduled at the row's
\* timestamp and not yet run; a step whose row was not saved schedules none.
C36_AppendBeforeSync ==
    [][Len(tasks') > Len(tasks) =>
          /\ Len(log') = Len(log) + 1
          /\ SubSeq(log', 1, Len(log)) = log
          /\ Len(tasks') = Len(tasks) + 1
          /\ tasks'[Len(tasks')].stage = "created"
          /\ tasks'[Len(tasks')].sent_at = log'[Len(log')].timestamp]_vars

\* the OUT of the break was not saved and nothing was scheduled for it; the
\* BACK was saved and its sync is scheduled
C36_Witness ==
    /\ Len(log) = 1
    /\ log[1].action = "BACK"
    /\ Len(tasks) = 1
    /\ tasks[1].stage = "created"
    /\ outcomes = <<>>
    /\ ~initialized

\* C37: a text message is taken as the reason of a pending Other start
\* only, and the step that makes the session from the draft ends the
\* pending start, so that no later text makes a session from it again.
C37_PromotedOnce ==
    [][\A user \in Persons, chat \in Chats, reason \in Reasons, append_ok \in BOOLEAN :
          HandleReason(user, chat, reason, append_ok) =>
             /\ <<chat, user>> \in conversations
             /\ is_active(user)' => <<chat, user>> \notin conversations']_vars

\* the rows without their reason texts
Unreasoned(rows) == [i \in 1..Len(rows) |-> [rows[i] EXCEPT !.reason = ""]]

\* C38: from the same files at the same time, the start-up repair and a
\* force-close over three days build BACK rows for the same persons with
\* the same break type, day, timestamp and duration, each with its own
\* reason text, and leave the same log but for the reason texts.
C38_SameRepair ==
    /\ [](\A unreadable \in UnreadableDays :
            LET fixed == fix_stuck_rows(unreadable)
                closed == force_close_rows_reading(3, unreadable)
                all_breaks == stuck_breaks(3, unreadable)
            IN  /\ Unreasoned(fixed) = Unreasoned(closed)
                /\ \A i \in 1..Len(fixed) :
                      /\ fixed[i].reason = AutoCloseReason(all_breaks[i].date_str)
                      /\ closed[i].reason = ForceCloseReason(all_breaks[i].date_str))
    /\ [][\A unreadable \in UnreadableDays :
            LET fixed == fix_stuck_rows(unreadable)
                closed == force_close_rows_reading(3, unreadable)
            IN  /\ Startup(unreadable) =>
                      Unreasoned(log') =
                         Unreasoned(IF closed # <<>> /\ Day(now) \in unreadable
                                    THEN log ELSE log \o closed)
                /\ ForceCloseReading(3, unreadable) =>
                      Unreasoned(log') =
                         Unreasoned(IF Day(now) \in unreadable
                                    THEN log ELSE log \o fixed)]_vars

\* the start-up repair has closed a break whose OUT has no readable
\* timestamp and the force-close another one
C38_Witness ==
    \E i, j, k \in 1..Len(log) :
       /\ log[i].action = "OUT" /\ log[i].timestamp = NaT
       /\ log[j].action = "BACK"
       /\ log[j].user_id = log[i].user_id
       /\ log[j].reason = AutoCloseReason(log[i].day)
       /\ log[j].duration = <<0>>
       /\ log[k].action = "BACK"
       /\ log[k].reason \in {ForceCloseReason(0), ForceCloseReason(1)}

\* the step leaves every other person as they were: their session, and
\* their rows in the log
OthersUntouched(user) ==
    \A other \in Persons \ {user} :
       /\ (other \in DOMAIN user_sessions') = (other \in DOMAIN user_sessions)
       /\ other \in DOMAIN user_sessions => user_sessions'[other] = user_sessions[other]
       /\ EventsOf(log', other) = EventsOf(log, other)

\* C39: a button press, a break command, a reason text or a /cancel of one
\* person, accepted or refused, leaves the session of every other person
\* as it was and adds no row of another person to the log.
C39_PerPerson ==
    [][\A user \in Persons, chat \in Chats :
          /\ (\E press \in ButtonPresses({user}, {chat}) :
                 ButtonCallback(press[1], press[2], press[3], press[4], TRUE))
                => OthersUntouched(user)
          /\ (\E command \in BreakCommands({user}, {chat}) :
                 HandleBreakCommand(command[1], command[2], command[3], command[4], command[5], TRUE))
                => OthersUntouched(user)
          /\ (\E reason \in Reasons : HandleReason(user, chat, reason, TRUE))
                => OthersUntouched(user)
          /\ Cancel(user, chat) => OthersUntouched(user)]_vars

\* one person is in a break with its row in the log, and the other person
\* has started an Other break with a reason, whose next start is refused
C39_Witness ==
    \E user, other \in Persons :
       /\ user # other
       /\ is_active(other)
       /\ EventsOf(log, other) # <<>>
       /\ is_active(user)
       /\ "reason" \in DOMAIN user_sessions[user]
       /\ EventsOf(log, user) # <<>>
       /\ button_callback(user, "private", "S", "1", TRUE).reply.kind = "AlreadyActive"

\* C40: a call of _request makes at most MAX_RETRIES + 1 HTTP requests and
\* calls refresh_access_token at most once, on a 401 to its first request
\* only; with retry_count at MAX_RETRIES the next answer or failure makes
\* it return; and every call returns a value.
C40_BoundedAttempts ==
    /\ [](graph_request # <<>> =>
            /\ graph_request[1].attempts <= MAX_RETRIES + 1
            /\ graph_request[1].attempts <= graph_request[1].retry_count + 1
            /\ graph_request[1].retry_count <= MAX_RETRIES
            /\ graph_request[1].refreshes <= 1)
    /\ [][(graph_request # <<>> /\ graph_request' # <<>>) =>
            /\ graph_request'[1].refreshes > graph_request[1].refreshes =>
                  graph_request[1].attempts = 0 /\ graph_request'[1].attempts = 1
            /\ (/\ graph_request[1].pc = "sending"
                /\ graph_request[1].retry_count = MAX_RETRIES
                /\ graph_request' # graph_request)
                  => /\ graph_request'[1].pc = "returned"
                     /\ graph_request'[1].result # None]_vars
    /\ ((graph_request # <<>>) ~> (graph_request = <<>>))

\* a call has returned an error after four HTTP requests and 7 seconds of
\* sleep, the first of them answered with 401 and a token refresh
C40_Witness ==
    /\ graph_request # <<>>
    /\ graph_request[1].pc = "returned"
    /\ graph_request[1].attempts = MAX_RETRIES + 1
    /\ graph_request[1].refreshes = 1
    /\ graph_request[1].result \in {"ClientError", "Server error after retries", "Rate limit exceeded after retries"}

====
